---- MODULE Spec2Model ----
(***************************************************************************)
(* A model of galpy's tidal-stream distribution function (streamdf.py):    *)
(* the finite-difference Jacobian calcaAJac, the +-pi angle-wrap           *)
(* correction, the streamdf constructor with its methods, and the chunked  *)
(* stream-track builder _determine_stream_track.                           *)
(*                                                                         *)
(* Real numbers are modelled by integers:                                  *)
(*   - angles are counted in units of pi/HalfTurn, so pi = HalfTurn and    *)
(*     2*pi = FullTurn; the transform returns angles in 0..FullTurn-1;     *)
(*   - a quotient a/b is kept as the pair <<a, b>>;                        *)
(*   - the external collaborators (action-angle transform, orbit           *)
(*     integrator) are deterministic functions of their arguments.         *)
(***************************************************************************)
EXTENDS Integers, Sequences, FiniteSets, TLC

\* ------------------------------------------------------------ bounds ----
MaxList == 2           \* longest list given to RZToverticalPotential
MaxR == 2              \* the radii R are 1 .. MaxR
MaxOrbits == 2         \* longest list of orbits given to a method
MaxCalls == 2          \* successive calls of calcaAJac on the same arrays
HalfTurn == 2
OmegaMax == 1       \* progenitor frequencies range over -OmegaMax..OmegaMax
MaxdOdJ == 2        \* entries of dO/dJ range over 1..MaxdOdJ
MaxChunks == 3      \* nTrackChunks ranges over 1..MaxChunks
MaxMulti == 2       \* multi ranges over None, 1..MaxMulti
MaxCpu == 2         \* multiprocessing.cpu_count() ranges over 1..MaxCpu
MaxBuilds == 2      \* constructions of the same model in a row
MaxDangle == 1      \* angle offsets given to meanOmega: 0..MaxDangle
PrepHalfTurn == 4   \* prepData4aA: its angles are counted in units of pi/PrepHalfTurn
MaxPrepCalls == 2   \* calls of prepData4aA that go through the transform
MaxCov == 1         \* entries of a general dO/dJ and dispersions: -MaxCov..MaxCov

\* --------------------------------------------------- program constants ----
\* The factors of lines 519-524, to the nearest whole number: 180/pi,
\* Rnorm, Vnorm and Vnorm/4.74047.
DegPerRad == 57
Rnorm == 8
Vnorm == 220
VnormOverK == 46
NCoord == 6
SigMeanOffset == 6        \* sigMeanOffset=6.
DeltaAngleTrack == 3      \* deltaAngleTrack=1.5, in units of 1/2 rad
Four == 4                 \* the threshold 4. (rad) of prepData4aA
PiNum == 31416            \* numpy.pi = PiNum/PiDen, to the precision the
PiDen == 10000            \* comparisons with 4 rad need

None == "None"
Pi == HalfTurn
FullTurn == 2 * HalfTurn
Angles == 0 .. (FullTurn - 1)
AngleNames == {"r", "phi", "z"}
Coords == 1 .. NCoord

VARIABLES
  \* calcaAJac
  jpc,        \* position in calcaAJac: "idle", "base", "perturb", "fill",
              \* "return", "done", "raised"
  jii,        \* loop variable ii (0-based, as in the code)
  xv,         \* the caller's phase-space array, perturbed in place
  dxv,        \* the step-size array
  jmode,      \* the mode flags [actionsFreqsAngles, freqs, dOdJ]
  aAparam,    \* the action-angle transform in use (one of a family)
  initacfs,   \* the transform's value at the base point
  tacfs,      \* the transform's value at the perturbed point
  jac,        \* the Jacobian under construction, rows 0.. as in the code
  jac2,       \* the second Jacobian (dOdJ mode)
  aAcallsJ,   \* number of transform calls made by calcaAJac
  jfault,     \* where and how the transform fails: [kind, at]
  jret,       \* what calcaAJac returns or raises
  jlb,        \* the lb flag
  callerDxv,  \* the dxv array the caller passes, <<>> for dxv=None
  jhist       \* the step sizes and results of the caller's earlier calls

VARIABLES
  \* the +-pi angle-wrap correction applied to one pair of angles
  wa, wb,     \* the two angles, in [0, 2*pi)
  wshift,     \* whole turns added to <<wa, wb>> for the shifted application
  wsite,      \* where the correction is applied: "none", "r", "phi", "z", "diffAngles"
  wout,       \* the wrapped difference of wa and wb
  woutShift   \* the wrapped difference of the shifted angles

VARIABLES
  \* one streamdf object and its construction
  pc,         \* position in streamdf.__init__, or "done" / "raised"
  inp,        \* the constructor's arguments
  self,       \* the object's attributes: a function from names to values
  err,        \* the exception raised by the constructor, or None
  aAcalls,    \* number of action-angle transform calls made so far
  integrations, \* number of orbit integrations made so far
  ret,        \* outcome of the last method call on the constructed object
  prev,       \* <<summary of the previously constructed object>>, or <<>>
  builds      \* number of constructions started

VARIABLES
  \* _determine_stream_track, chunk by chunk
  tpc,        \* position: "idle", "start", "serial", "parallel", "assemble", "assign",
              \* "done", "raised"
  cpuCount,   \* multiprocessing.cpu_count()
  tii,        \* loop variable ii (0-based, as in the code)
  thetasTrack, allAcfsTrack, alljacsTrack, allinvjacsTrack, ObsTrack, \* the locals
  multiOut,   \* the list parallel_map fills and returns
  numcores,   \* workers asked of parallel_map
  started,    \* chunks a worker has taken up
  finishOrder, \* chunks in the order their workers ended
  badChunks,  \* chunks whose computation raises (the transform fails there)
  chunkCalls  \* how often the computation of each chunk has been started

VARIABLES
  \* RZToverticalPotential
  vpc,        \* "idle", "call", "returned", "again", "raised"
  RZPot,      \* the first argument: one object or a list of objects
  vR,         \* the second argument, R
  vout,       \* what the call returned or raised
  vagain      \* what the call on what it returned has returned or raised

jvars == <<jpc, jii, xv, dxv, jmode, aAparam, initacfs, tacfs, jac, jac2, aAcallsJ,
           jfault, jret, jlb, callerDxv, jhist>>
wvars == <<wa, wb, wshift, wsite, wout, woutShift>>

ovars == <<pc, inp, self, err, aAcalls, integrations, ret, prev, builds>>

tvars == <<tpc, cpuCount, tii, thetasTrack, allAcfsTrack, alljacsTrack,
           allinvjacsTrack, ObsTrack, multiOut, numcores, started, finishOrder,
           badChunks, chunkCalls>>

pvars == <<vpc, RZPot, vR, vout, vagain>>

vars == <<jvars, wvars, ovars, tvars, pvars>>

\* Values of the variables of a part of the program that is not running.
JacIdle ==
  /\ jpc = "idle" /\ jii = 0 /\ xv = <<>> /\ dxv = <<>> /\ jmode = None
  /\ aAparam = None /\ initacfs = None /\ tacfs = None /\ jac = <<>>
  /\ jac2 = <<>> /\ aAcallsJ = 0 /\ jfault = None /\ jret = None
  /\ jlb = FALSE /\ callerDxv = <<>> /\ jhist = <<>>

WrapIdle ==
  /\ wa = 0 /\ wb = 0 /\ wshift = <<0, 0>> /\ wsite = "none"
  /\ wout = 0 /\ woutShift = 0

TrackIdle ==
  /\ tpc = "idle" /\ cpuCount = 0 /\ tii = 0 /\ thetasTrack = <<>>
  /\ allAcfsTrack = <<>> /\ alljacsTrack = <<>> /\ allinvjacsTrack = <<>>
  /\ ObsTrack = <<>> /\ multiOut = <<>> /\ numcores = 0 /\ started = {}
  /\ finishOrder = <<>> /\ badChunks = {} /\ chunkCalls = <<>>

NoResult == [raised |-> None, isList |-> FALSE, items |-> <<>>]

PotIdle ==
  /\ vpc = "idle" /\ RZPot = None /\ vR = 0 /\ vout = NoResult /\ vagain = NoResult

NoCall == [op |-> "none", args |-> <<>>, raised |-> None, value |-> <<>>]

ObjIdle ==
  /\ pc = "idle" /\ inp = None /\ self = <<>> /\ err = None /\ aAcalls = 0
  /\ integrations = 0 /\ ret = NoCall /\ prev = <<>> /\ builds = 0

\* -------------------------------------------- action-angle transform ----
\* aA.actionsFreqsAngles(R,vR,vT,z,vz,phi,maxn=3): an external collaborator,
\* deterministic in its argument.  The family is indexed by the angles at
\* the origin (a) and by the rate (g) at which the angles advance.
SumXv(x) == x[1] + 2 * x[2] + 3 * x[3] + 4 * x[4] + 5 * x[5] + 6 * x[6]

actionsFreqsAngles(p, x) ==
  [ J     |-> [k \in AngleNames |-> SumXv(x)],
    Omega |-> [k \in AngleNames |-> 2 * SumXv(x)],
    angle |-> [k \in AngleNames |-> (p.a[k] + p.g * SumXv(x)) % FullTurn] ]

aAFamily == [a : [AngleNames -> Angles], g : Angles]

\* How the transform behaves at the points calcaAJac gives it: point 0 is
\* the base point, point ii+1 the point with coordinate ii perturbed.  It
\* returns, raises, or returns values that are not finite.
NoFault == [kind |-> "none", at |-> 0]
Faults == {NoFault} \cup [kind : {"raises", "nonfinite"}, at : 0 .. NCoord]
TransformRaises(f, point) == f.kind = "raises" /\ f.at = point
TransformNotFinite(f, point) == f.kind = "nonfinite" /\ f.at = point

\* --------------------------------------------------------- calcaAJac ----
Modes == [actionsFreqsAngles : BOOLEAN, freqs : BOOLEAN, dOdJ : BOOLEAN]

NRowsSquare(m) == 6

\* jac= numpy.zeros((9,6)) / numpy.zeros((6,6))
NRows(m) == IF m.actionsFreqsAngles THEN 9 ELSE 6
Zero == <<0, 1>>
ZeroMatrix(n) == [row \in 0 .. (n - 1) |-> [col \in 0 .. (NCoord - 1) |-> Zero]]

\* angleIndx= 3, or 6 in actionsFreqsAngles mode
angleIndx(m) == IF m.actionsFreqsAngles THEN 6 ELSE 3

\* if d > pi: (d-2pi)/step  elif d < -pi: (d+2pi)/step  else: d/step
JacAngleR(d, step) ==
  IF d > Pi THEN <<d - FullTurn, step>>
  ELSE IF d < -Pi THEN <<d + FullTurn, step>>
  ELSE <<d, step>>

JacAnglePhi(d, step) ==
  IF d > Pi THEN <<d - FullTurn, step>>
  ELSE IF d < -Pi THEN <<d + FullTurn, step>>
  ELSE <<d, step>>

\* The vertical angle is written by two separate statements: an `if` for
\* d > pi, then an `if ... else` for d < -pi whose else branch also runs
\* when d > pi and overwrites the first assignment.
JacAngleZ(d, step) ==
  LET first  == IF d > Pi THEN <<d - FullTurn, step>> ELSE Zero
      second == IF d < -Pi THEN <<d + FullTurn, step>> ELSE <<d, step>>
  IN  second

JacAngle(k, d, step) ==
  CASE k = "r"   -> JacAngleR(d, step)
    [] k = "phi" -> JacAnglePhi(d, step)
    [] k = "z"   -> JacAngleZ(d, step)

RowOf(k) == CASE k = "r" -> 0 [] k = "phi" -> 1 [] k = "z" -> 2
NameOf(i) == CASE i = 0 -> "r" [] i = 1 -> "phi" [] i = 2 -> "z"

\* The non-angle rows written for column ii (lines 549-564).
JacUpperRows(m, base, t, step, row, old) ==
  IF m.actionsFreqsAngles
    THEN IF row < 3 THEN <<t.J[NameOf(row)] - base.J[NameOf(row)], step>>
         ELSE IF row < 6
           THEN <<t.Omega[NameOf(row - 3)] - base.Omega[NameOf(row - 3)], step>>
           ELSE old
  ELSE IF m.freqs
    THEN IF row < 3 THEN <<t.Omega[NameOf(row)] - base.Omega[NameOf(row)], step>>
         ELSE old
  ELSE IF row < 3 THEN <<t.J[NameOf(row)] - base.J[NameOf(row)], step>>
         ELSE old

\* Column ii of jac after one pass of the loop body.
JacColumn(m, base, t, step, row, old) ==
  IF row >= angleIndx(m) /\ row < angleIndx(m) + 3
    THEN JacAngle(NameOf(row - angleIndx(m)),
                  t.angle[NameOf(row - angleIndx(m))]
                    - base.angle[NameOf(row - angleIndx(m))], step)
    ELSE JacUpperRows(m, base, t, step, row, old)

\* jac2[0..2,ii] = (tO - O)/dxv[ii]  (dOdJ mode only)
Jac2Column(base, t, step, row, old) ==
  IF row < 3 THEN <<t.Omega[NameOf(row)] - base.Omega[NameOf(row)], step>>
  ELSE old

\* An entry computed from a value of the transform that is not finite is
\* nan: (nan - x)/step, and each comparison of nan with pi is False, so the
\* angle entries take their else branch.
JacEntry(f, ii, m, base, t, step, row, old) ==
  IF TransformNotFinite(f, 0) \/ TransformNotFinite(f, ii + 1)
    THEN <<0, 0>>
    ELSE JacColumn(m, base, t, step, row, old)

Jac2Entry(f, ii, base, t, step, row, old) ==
  IF row < 3 /\ (TransformNotFinite(f, 0) \/ TransformNotFinite(f, ii + 1))
    THEN <<0, 0>>
    ELSE Jac2Column(base, t, step, row, old)

\* lbCoordFunc (lines 612-627): from (l,b,D,vlos,pmll,pmbb) to
\* (R,vR,vT,z,vz,phi) by the conversions of bovy_coords, a function of xv
\* alone.
lbCoordFunc(x) == <<x[3], x[4], x[5] + x[6], x[2], x[6], x[1]>>

\* Lines 509-514: with lb the transform is given lbCoordFunc(xv), without
\* it (and without a coordFunc) xv itself.
coordFunc(lb, x) == IF lb THEN lbCoordFunc(x) ELSE x

\* Lines 517-524: the entries of dxv are multiplied where they stand.
LbRescale(d, x) ==
  <<d[1] * DegPerRad, d[2] * DegPerRad, d[3] * Rnorm, d[4] * Vnorm,
    d[5] * (VnormOverK \div x[3]), d[6] * (VnormOverK \div x[3])>>

NoReturn == [raised |-> None, rows |-> 0, cols |-> 0, value |-> <<>>]

\* The state when the loop is reached, the transform having returned at the
\* base point and failing nowhere.
JacInit ==
  /\ jpc = "perturb"
  /\ jii = 0
  /\ xv = [i \in Coords |-> 0]
  /\ dxv = [i \in Coords |-> 1]            \* dxv= 10.**-8.*numpy.ones(6)
  /\ jmode \in Modes
  /\ aAparam \in aAFamily
  /\ initacfs = actionsFreqsAngles(aAparam, xv)   \* _initacfs is None
  /\ tacfs = initacfs
  /\ jac = ZeroMatrix(NRows(jmode))
  /\ jac2 = ZeroMatrix(6)
  /\ aAcallsJ = 1
  /\ jfault = NoFault
  /\ jret = NoReturn
  /\ jlb = FALSE
  /\ callerDxv = <<>>
  /\ jhist = <<>>
  /\ WrapIdle
  /\ ObjIdle
  /\ TrackIdle
  /\ PotIdle

\* Lines 531-533 (_initacfs is None): the transform is called at the base
\* point; its exception leaves calcaAJac.
JacBase ==
  /\ jpc = "base"
  /\ aAcallsJ' = aAcallsJ + 1
  /\ IF TransformRaises(jfault, 0)
       THEN /\ jpc' = "raised"
            /\ jret' = [NoReturn EXCEPT !.raised = "aAError"]
            /\ UNCHANGED <<initacfs, tacfs>>
       ELSE /\ jpc' = "perturb"
            /\ initacfs' = actionsFreqsAngles(aAparam, coordFunc(jlb, xv))
            /\ tacfs' = actionsFreqsAngles(aAparam, coordFunc(jlb, xv))
            /\ jret' = jret
  /\ UNCHANGED <<jii, xv, dxv, jmode, aAparam, jac, jac2, jfault>>
  /\ UNCHANGED <<jlb, callerDxv, jhist>>
  /\ UNCHANGED <<wvars, ovars, tvars, pvars>>

\* temp= xv[ii]+dxv[ii]; dxv[ii]= temp-xv[ii]; xv[ii]+= dxv[ii];
\* the transform is called at the perturbed point; its exception leaves
\* calcaAJac (before xv[ii]-= dxv[ii]).
JacPerturb ==
  /\ jpc = "perturb"
  /\ jii < NCoord
  /\ LET temp == xv[jii + 1] + dxv[jii + 1]
         step == temp - xv[jii + 1]
         pxv  == [xv EXCEPT ![jii + 1] = @ + step]
     IN  /\ dxv' = [dxv EXCEPT ![jii + 1] = step]
         /\ xv' = pxv
         /\ tacfs' = IF TransformRaises(jfault, jii + 1) THEN tacfs
                     ELSE actionsFreqsAngles(aAparam, coordFunc(jlb, pxv))
  /\ aAcallsJ' = aAcallsJ + 1
  /\ IF TransformRaises(jfault, jii + 1)
       THEN jpc' = "raised" /\ jret' = [NoReturn EXCEPT !.raised = "aAError"]
       ELSE jpc' = "fill" /\ jret' = jret
  /\ UNCHANGED <<jii, jmode, aAparam, initacfs, jac, jac2, jfault>>
  /\ UNCHANGED <<jlb, callerDxv, jhist>>
  /\ UNCHANGED <<wvars, ovars, tvars, pvars>>

\* xv[ii]-= dxv[ii]; fill column ii of jac (and of jac2).
JacFill ==
  /\ jpc = "fill"
  /\ xv' = [xv EXCEPT ![jii + 1] = @ - dxv[jii + 1]]
  /\ jac' = [row \in DOMAIN jac |->
               [jac[row] EXCEPT ![jii] =
                  JacEntry(jfault, jii, jmode, initacfs, tacfs, dxv[jii + 1], row, @)]]
  /\ jac2' = IF jmode.dOdJ
               THEN [row \in DOMAIN jac2 |->
                       [jac2[row] EXCEPT ![jii] =
                          Jac2Entry(jfault, jii, initacfs, tacfs, dxv[jii + 1], row, @)]]
               ELSE jac2
  /\ jii' = jii + 1
  /\ jpc' = IF jii + 1 = NCoord THEN "return" ELSE "perturb"
  /\ UNCHANGED <<dxv, jmode, aAparam, initacfs, tacfs, aAcallsJ, jfault, jret>>
  /\ UNCHANGED <<jlb, callerDxv, jhist>>
  /\ UNCHANGED <<wvars, ovars, tvars, pvars>>

Jac2LowerNotCopied(j, j2) == j2

\* jac2[3,:]= jac[3,:]; jac2[4,:]= jac[4,:]; jac2[5,:]= jac[5,:]
Jac2Lower(j, j2) == [row \in DOMAIN j2 |-> IF row >= 3 THEN j[row] ELSE j2[row]]

\* The shape of an array of rows 0.. and columns 0..
Shape(a) == <<Cardinality(DOMAIN a), Cardinality(DOMAIN a[0])>>

\* Lines 588-593.  Without dOdJ jac is returned as it is.  With dOdJ the
\* result is numpy.dot(jac2,numpy.linalg.inv(jac))[0:3,0:3]; numpy.linalg.inv
\* raises LinAlgError for a matrix that is not square (the 9x6 matrix of
\* actionsFreqsAngles) and for one it finds singular.
JacReturn ==
  /\ jpc = "return"
  /\ \E singular \in BOOLEAN :
       IF ~jmode.dOdJ
         THEN /\ jret' = [raised |-> None, rows |-> Shape(jac)[1],
                          cols |-> Shape(jac)[2], value |-> <<"jac", jac>>]
              /\ jac2' = jac2
              /\ jpc' = "done"
         ELSE /\ jac2' = Jac2Lower(jac, jac2)
              /\ IF Shape(jac)[1] # Shape(jac)[2] \/ singular
                   THEN /\ jret' = [NoReturn EXCEPT !.raised = "LinAlgError"]
                        /\ jpc' = "raised"
                   ELSE /\ jret' = [raised |-> None, rows |-> 3, cols |-> 3,
                                    value |-> <<"dot(jac2,inv(jac))[0:3,0:3]",
                                                Jac2Lower(jac, jac2), jac>>]
                        /\ jpc' = "done"
  /\ UNCHANGED <<jii, xv, dxv, jmode, aAparam, initacfs, tacfs, jac, aAcallsJ, jfault>>
  /\ UNCHANGED <<jlb, callerDxv, jhist>>
  /\ UNCHANGED <<wvars, ovars, tvars, pvars>>

JacNext == JacPerturb \/ JacFill \/ JacReturn

SpecJac == JacInit /\ [][JacNext]_vars

\* calcaAJac from its first statement, with a transform that may fail.
FaultFamily == [a : {[k \in AngleNames |-> 0]}, g : Angles]

JacFaultInit ==
  /\ jpc = "base"
  /\ jii = 0
  /\ xv = [i \in Coords |-> 0]
  /\ dxv = [i \in Coords |-> 1]            \* dxv= 10.**-8.*numpy.ones(6)
  /\ jmode \in Modes
  /\ aAparam \in FaultFamily
  /\ initacfs = None
  /\ tacfs = None
  /\ jac = ZeroMatrix(NRows(jmode))
  /\ jac2 = ZeroMatrix(6)
  /\ aAcallsJ = 0
  /\ jfault \in Faults
  /\ jret = NoReturn
  /\ jlb = FALSE
  /\ callerDxv = <<>>
  /\ jhist = <<>>
  /\ WrapIdle
  /\ ObjIdle
  /\ TrackIdle
  /\ PotIdle

JacFaultNext == JacBase \/ JacPerturb \/ JacFill \/ JacReturn

SpecJacFault == JacFaultInit /\ [][JacFaultNext]_vars

\* Lines 509-530: dxv=None makes a new array of steps, a given array is
\* used as it is; with lb it is rescaled; jac and jac2 are allocated.
JacEnter ==
  /\ jpc = "enter"
  /\ dxv' = LET d == IF callerDxv = <<>> THEN [i \in Coords |-> 1] ELSE callerDxv
            IN  IF jlb THEN LbRescale(d, xv) ELSE d
  /\ jac' = ZeroMatrix(NRows(jmode))
  /\ jac2' = ZeroMatrix(6)
  /\ jii' = 0
  /\ aAcallsJ' = 0
  /\ jret' = NoReturn
  /\ jpc' = "base"
  /\ UNCHANGED <<xv, jmode, aAparam, initacfs, tacfs, jfault, jlb, callerDxv, jhist>>
  /\ UNCHANGED <<wvars, ovars, tvars, pvars>>

\* The caller keeps what was returned and calls calcaAJac again with the
\* same arguments; an array it passed as dxv is as the call left it.
JacAgain ==
  /\ jpc = "done"
  /\ Len(jhist) < MaxCalls - 1
  /\ jhist' = Append(jhist, [steps |-> dxv, value |-> jret])
  /\ callerDxv' = IF callerDxv = <<>> THEN <<>> ELSE dxv
  /\ jpc' = "enter"
  /\ UNCHANGED <<jii, xv, dxv, jmode, aAparam, initacfs, tacfs, jac, jac2, aAcallsJ,
                 jfault, jret, jlb>>
  /\ UNCHANGED <<wvars, ovars, tvars, pvars>>

\* Successive calls of calcaAJac(xv, aA, dxv=..., lb=...) by one caller.
RepeatPoints == {<<0, 0, 1, 0, 0, 0>>, <<1, 0, 2, 0, 1, 0>>}

RepeatInit ==
  /\ jpc = "enter"
  /\ jii = 0
  /\ xv \in RepeatPoints
  /\ callerDxv \in {<<>>, <<1, 1, 1, 1, 1, 1>>}
  /\ dxv = <<>>
  /\ jlb \in BOOLEAN
  /\ jmode \in {m \in Modes : ~m.dOdJ}
  /\ aAparam \in FaultFamily
  /\ initacfs = None
  /\ tacfs = None
  /\ jac = <<>>
  /\ jac2 = <<>>
  /\ aAcallsJ = 0
  /\ jfault = NoFault
  /\ jret = NoReturn
  /\ jhist = <<>>
  /\ WrapIdle
  /\ ObjIdle
  /\ TrackIdle
  /\ PotIdle

RepeatNext == JacEnter \/ JacBase \/ JacPerturb \/ JacFill \/ JacReturn \/ JacAgain

SpecRepeat == RepeatInit /\ [][RepeatNext]_vars

\* ------------------------------------------- the angle-wrap correction ----
DiffAnglesWrapHalfTurn(d) ==
  LET d1 == IF d > Pi THEN d - Pi ELSE d
  IN  IF d1 < -Pi THEN d1 + Pi ELSE d1

\* _determine_stream_track_single, applied in place to diffAngles:
\*   diffAngles[diffAngles > pi]  = diffAngles[diffAngles > pi]  - 2 pi
\*   diffAngles[diffAngles < -pi] = diffAngles[diffAngles < -pi] + 2 pi
DiffAnglesWrap(d) ==
  LET d1 == IF d > Pi THEN d - FullTurn ELSE d
  IN  IF d1 < -Pi THEN d1 + FullTurn ELSE d1

\* The correction of site s applied to the raw difference a - b.
WrapAt(s, a, b) ==
  IF s = "diffAngles" THEN DiffAnglesWrap(a - b) ELSE JacAngle(s, a - b, 1)[1]

Shifts == {-1, 0, 1}

WrapInit ==
  /\ wa \in Angles
  /\ wb \in Angles
  /\ wshift \in Shifts \X Shifts
  /\ wsite = "none"
  /\ wout = 0
  /\ woutShift = 0
  /\ JacIdle
  /\ ObjIdle
  /\ TrackIdle
  /\ PotIdle

\* Apply the correction of calcaAJac's angle component k.
WrapJac ==
  /\ wsite = "none"
  /\ \E k \in AngleNames :
       /\ wsite' = k
       /\ wout' = WrapAt(k, wa, wb)
       /\ woutShift' = WrapAt(k, wa + wshift[1] * FullTurn, wb + wshift[2] * FullTurn)
  /\ UNCHANGED <<wa, wb, wshift>>
  /\ UNCHANGED <<jvars, ovars, tvars, pvars>>

\* Apply the correction of _determine_stream_track_single.
WrapDiffAngles ==
  /\ wsite = "none"
  /\ wsite' = "diffAngles"
  /\ wout' = WrapAt("diffAngles", wa, wb)
  /\ woutShift' = WrapAt("diffAngles", wa + wshift[1] * FullTurn,
                                       wb + wshift[2] * FullTurn)
  /\ UNCHANGED <<wa, wb, wshift>>
  /\ UNCHANGED <<jvars, ovars, tvars, pvars>>

WrapNext == WrapJac \/ WrapDiffAngles

SpecWrap == WrapInit /\ [][WrapNext]_vars

\* ------------------------------------------------- small real algebra ----
Idx3 == 1 .. 3
Dot(u, v) == u[1] * v[1] + u[2] * v[2] + u[3] * v[3]
Diag(v) == [i \in Idx3 |-> [j \in Idx3 |-> IF i = j THEN v[i] ELSE 0]]
Transpose(m) == [i \in Idx3 |-> [j \in Idx3 |-> m[j][i]]]
MatMul(a, b) ==
  [i \in Idx3 |-> [j \in Idx3 |-> a[i][1] * b[1][j] + a[i][2] * b[2][j] + a[i][3] * b[3][j]]]

\* numpy.amax / numpy.argmax (the first index of the maximum; 1-based here)
amax(v) == CHOOSE x \in {v[i] : i \in Idx3} : \A i \in Idx3 : v[i] <= x
argmax(v) == CHOOSE i \in Idx3 : v[i] = amax(v) /\ \A j \in 1 .. (i - 1) : v[j] # amax(v)

\* sorted(...): ascending
sorted(v) == SortSeq(v, LAMBDA a, b : a < b)

\* numpy.linalg.eig, for the diagonal matrices the model feeds it: the
\* eigenvalues are the diagonal in order and the eigenvectors (the columns
\* of the second component) are the unit vectors.
eig(m) == <<[i \in Idx3 |-> m[i][i]], Diag(<<1, 1, 1>>)>>
Column(m, j) == [i \in Idx3 |-> m[i][j]]

\* ------------------------------------------------ streamdf attributes ----
\* self.<name> = value, for every name of the function r
SetAttrs(s, r) ==
  [n \in (DOMAIN s) \cup (DOMAIN r) |-> IF n \in DOMAIN r THEN r[n] ELSE s[n]]

HasAttrs(s, names) == names \subseteq DOMAIN s

ProgenitorAttrs ==
  {"_progenitor", "_progenitor_jr", "_progenitor_lz", "_progenitor_jz",
   "_progenitor_Omegar", "_progenitor_Omegaphi", "_progenitor_Omegaz",
   "_progenitor_Omega", "_progenitor_angler", "_progenitor_anglephi",
   "_progenitor_anglez", "_progenitor_angle",
   "_progenitor_Omega_along_dOmega", "_progenitorTrack"}
CovarianceAttrs ==
  {"_dOdJp", "_sigjmatrix", "_sigomatrix", "_sigomatrixEig", "_sortedSigOEig",
   "_sigomatrixL", "_sigomatrixDet"}
TrackAttrs ==
  {"_trackts", "_thetasTrack", "_ObsTrack", "_allAcfsTrack", "_alljacsTrack",
   "_allinvjacsTrack"}

\* ------------------------------------------------- streamdf.__init__ ----
NoMulti == <<>>
\* The progenitor's frequencies (Omegar, Omegaphi, Omegaz); any sign, so
\* that the projection on the dominant direction takes either sign and zero.
Frequencies ==
  {<<a, b, a>> : a \in (-OmegaMax) .. OmegaMax, b \in (-OmegaMax) .. OmegaMax}
\* The progenitor orbit, known by its phase-space point [R,vR,vT,z,vz,phi]
\* at time 0.
Progenitors ==
  {[vxvv |-> <<1, 1, 2, 0, -1, 3>>], [vxvv |-> <<2, -1, 1, 1, 1, 0>>]}
Inputs ==
  [ pot     : {None, "pot"},
    aA      : {None, "aA"},
    progenitor : {[vxvv |-> <<1, 1, 2, 0, -1, 3>>]},
    leading : BOOLEAN,
    Omega   : Frequencies,
    dOdJ    : [Idx3 -> 1 .. MaxdOdJ],             \* diagonal of dO/dJ at the progenitor
    multi   : {NoMulti, <<MaxMulti>>},            \* None or a number
    nTrackChunks : {1, MaxChunks} ]

\* Lines 54-60: the scalars set before the potential is looked at.
InitScalars(s, in) ==
  SetAttrs(s, "_sigv" :> "sigv" @@ "_tdisrupt" :> "tdisrupt"
              @@ "_sigMeanOffset" :> SigMeanOffset @@ "_deltaAngle" :> "deltaAngle")

PotMissingIgnored(in) == FALSE

\* Line 61: if pot is None: raise IOError("pot= must be set")
PotMissing(in) == in.pot = None

\* Lines 63-66.
InitCollaborators(s, in) ==
  SetAttrs(s, "_pot" :> in.pot @@ "_aA" :> in.aA
              @@ "_progenitor" :> in.progenitor @@ "_multi" :> in.multi)

\* Line 68: aA.actionsFreqsAngles(self._progenitor,maxn=3), the value of
\* the transform at the progenitor.
ProgenitorAcfs(in) ==
  [J |-> <<1, 1, 1>>, Omega |-> in.Omega, angle |-> <<0, 0, 0>>]

\* Lines 69-79.
InitProgenitor(s, acfs) ==
  SetAttrs(s, "_progenitor_jr" :> acfs.J[1] @@ "_progenitor_lz" :> acfs.J[2]
              @@ "_progenitor_jz" :> acfs.J[3]
              @@ "_progenitor_Omegar" :> acfs.Omega[1]
              @@ "_progenitor_Omegaphi" :> acfs.Omega[2]
              @@ "_progenitor_Omegaz" :> acfs.Omega[3]
              @@ "_progenitor_Omega" :> acfs.Omega
              @@ "_progenitor_angler" :> acfs.angle[1]
              @@ "_progenitor_anglephi" :> acfs.angle[2]
              @@ "_progenitor_anglez" :> acfs.angle[3]
              @@ "_progenitor_angle" :> acfs.angle)

\* Lines 81-83: calcaAJac(...,dOdJ=True) at the progenitor.
InitdOdJ(s, in) == SetAttrs(s, "_dOdJp" :> Diag(in.dOdJ))

\* Lines 89-91: numpy.diag([sigjr**2., siglz**2., sigjz**2.])
SigJMatrix(sigj) == Diag([i \in Idx3 |-> sigj[i] * sigj[i]])

SigOMatrixNoTranspose(dOdJp, sigjmatrix) == MatMul(dOdJp, MatMul(sigjmatrix, dOdJp))

\* Lines 92-93: numpy.dot(dOdJp, numpy.dot(sigjmatrix, dOdJp.T))
SigOMatrix(dOdJp, sigjmatrix) == MatMul(dOdJp, MatMul(sigjmatrix, Transpose(dOdJp)))

\* Lines 85-93: the dispersions and the two matrices.
CovarianceMatrixAttrs(s, sigj) ==
  SetAttrs(s, "_sigjr" :> sigj[1] @@ "_siglz" :> sigj[2] @@ "_sigjz" :> sigj[3]
              @@ "_sigjmatrix" :> SigJMatrix(sigj)
              @@ "_sigomatrix" :> SigOMatrix(s["_dOdJp"], SigJMatrix(sigj)))

\* Lines 85-102: action dispersions, frequency covariance, its eigenvalues.
\* The dispersions sigjr, siglz, sigjz are taken as the unit.
InitCovariance(s) ==
  LET sigj        == <<1, 1, 1>>
      sigjmatrix  == SigJMatrix(sigj)
      sigomatrix  == SigOMatrix(s["_dOdJp"], sigjmatrix)
      sigomatrixEig == eig(sigomatrix)
  IN  SetAttrs(s, "_sigjr" :> sigj[1] @@ "_siglz" :> sigj[2] @@ "_sigjz" :> sigj[3]
                  @@ "_sigjmatrix" :> sigjmatrix
                  @@ "_sigomatrix" :> sigomatrix
                  @@ "_sigomatrixEig" :> sigomatrixEig
                  @@ "_sortedSigOEig" :> sorted(sigomatrixEig[1])
                  @@ "_sigangle" :> "sigv/100" @@ "_sigangle2" :> "sigangle**2"
                  @@ "_lnsigangle" :> "log(sigangle)")

sigMeanSignLeadingOnly(leading, along) ==
  IF leading /\ along < 0 THEN -1 ELSE 1

sigMeanSignFlipped(leading, along) ==
  IF leading /\ along > 0 THEN -1
  ELSE IF ~leading /\ along < 0 THEN -1
  ELSE 1

\* Lines 109-113.
sigMeanSign(leading, along) ==
  IF leading /\ along < 0 THEN -1
  ELSE IF ~leading /\ along > 0 THEN -1
  ELSE 1

\* Lines 104-121: dominant direction, sign, mean frequency.  sigomean is
\* Omega + coef * sqrt(sqrtOf) * dir, kept in that form.
InitDirection(s, in) ==
  LET vals  == s["_sigomatrixEig"][1]
      dir   == Column(s["_sigomatrixEig"][2], argmax(vals))
      along == Dot(s["_progenitor_Omega"], dir)
      sign  == sigMeanSign(in.leading, along)
      sigomean == [base |-> s["_progenitor_Omega"], coef |-> SigMeanOffset * sign,
                   sqrtOf |-> amax(vals), dir |-> dir]
  IN  SetAttrs(s, "_dsigomeanProgDirection" :> dir
                  @@ "_leading" :> in.leading
                  @@ "_sigMeanSign" :> sign
                  @@ "_progenitor_Omega_along_dOmega" :> along * sign
                  @@ "_sigomean" :> sigomean
                  @@ "_dsigomeanProg" :> [sigomean EXCEPT !.base = <<0, 0, 0>>])

\* Lines 123-130.
InitCholesky(s) ==
  SetAttrs(s, "_sigomatrixL" :> <<"stable_cholesky", s["_sigomatrix"]>>
              @@ "_sigomatrixDet" :> <<"det", s["_sigomatrix"]>>
              @@ "_Vnorm" :> "Vnorm" @@ "_Rnorm" :> "Rnorm" @@ "_R0" :> "R0"
              @@ "_Zsun" :> "Zsun" @@ "_vsun" :> "vsun")

\* ------------------------------------------ _determine_stream_track ----
\* The float a/b: <<num, den>> with den > 0, or Inf for division by zero
\* (numpy float division); NaN arises from 0*inf in linspace.
Inf == <<1, 0>>
NaN == <<0, 0>>
Quot(a, b) == IF b = 0 THEN Inf ELSE IF b > 0 THEN <<a, b>> ELSE <<-a, -b>>
Finite(q) == q[2] # 0
IsNeg(q) == Finite(q) /\ q[1] < 0
Neg(q) == IF Finite(q) THEN <<-q[1], q[2]>> ELSE q

\* numpy.linspace(0., stop, n): entry i is i*stop/(n-1), i = 0..n-1; all
\* entries are kept over the denominator (n-1)*den.
linspace(stop, n) ==
  IF n = 1 THEN <<Zero>>
  ELSE [i \in 1 .. n |->
          IF Finite(stop) THEN <<(i - 1) * stop[1], (n - 1) * stop[2]>>
          ELSE IF i = 1 THEN NaN ELSE Inf]

\* Lines 155-163: dt and the time grid.
TrackDt(s) == Quot(DeltaAngleTrack, s["_progenitor_Omega_along_dOmega"])

TrackTsSigned(s, n) == linspace(TrackDt(s), n)

\* self._trackts: linspace(0., dt, n), replaced by linspace(0., -dt, n) if dt < 0.
TrackTs(s, n) ==
  IF IsNeg(TrackDt(s)) THEN linspace(Neg(TrackDt(s)), n) ELSE linspace(TrackDt(s), n)

\* Lines 183-184.
ThetasTrack(n) == linspace(<<DeltaAngleTrack, 1>>, n)

\* Lines 165-170: Orbit([R(0.), -vR(0.), -vT(0.), z(0.), -vz(0.), phi(0.)])
FlipVelocities(p) == <<p[1], -p[2], -p[3], p[4], -p[5], p[6]>>

\* The orbit integrator (a collaborator): the phase-space point a time t
\* after the point start.  Positions advance with their velocities, R by vR,
\* z by vz and phi by vT; every entry is kept over the denominator of t.
OrbitRow(start, t) ==
  << <<start[1] * t[2] + start[2] * t[1], t[2]>>,
     <<start[2] * t[2], t[2]>>,
     <<start[3] * t[2], t[2]>>,
     <<start[4] * t[2] + start[5] * t[1], t[2]>>,
     <<start[5] * t[2], t[2]>>,
     <<start[6] * t[2] + start[3] * t[1], t[2]>> >>

\* Orbit.integrate(ts, pot): the trajectory array, one row per entry of ts;
\* the first row is the point the integration starts from.
integrate(start, ts) ==
  [i \in 1 .. Len(ts) |->
     IF i = 1 THEN [k \in Coords |-> <<start[k], 1>>] ELSE OrbitRow(start, ts[i])]

FlipBackNotVz(orbit) ==
  [i \in DOMAIN orbit |->
     [k \in Coords |-> IF k \in {1 + 1, 2 + 1} THEN Neg(orbit[i][k]) ELSE orbit[i][k]]]

\* Lines 176-178: orbit[:,1], orbit[:,2] and orbit[:,4] are negated in place
\* (columns are 1-based here).
FlipBack(orbit) ==
  [i \in DOMAIN orbit |->
     [k \in Coords |->
        IF k \in {1 + 1, 2 + 1, 4 + 1} THEN Neg(orbit[i][k]) ELSE orbit[i][k]]]

\* Lines 162-178: the orbit of the track, integrated over the time grid.
ProgenitorTrack(s, n) ==
  LET p0    == s["_progenitor"].vxvv
      start == IF IsNeg(TrackDt(s)) THEN FlipVelocities(p0) ELSE p0
      orbit == integrate(start, TrackTs(s, n))
  IN  [vxvv |-> start,
       orbit |-> IF IsNeg(TrackDt(s)) THEN FlipBack(orbit) ELSE orbit]

\* Lines 153-178: attributes set before the chunks are computed.
TrackGridAttrs(s, n) ==
  SetAttrs(s, "_deltaAngleTrack" :> DeltaAngleTrack
              @@ "_nTrackChunks" :> n
              @@ "_trackts" :> TrackTs(s, n)
              @@ "_progenitorTrack" :> ProgenitorTrack(s, n))

\* _determine_stream_track_single(aA, progenitorTrack, trackt, ..., thetasTrack):
\* a deterministic function of the time and the angle offset it is given;
\* [allAcfsTrack, alljacsTrack, allinvjacsTrack, ObsTrack].
determine_stream_track_single(trackt, theta) ==
  << <<"acfs", trackt>>, <<"jac", trackt>>, <<"invjac", trackt>>, <<"obs", trackt, theta>> >>

\* The call made for chunk x (lines 188-195 and the lambda of 202-207; x is
\* 1-based here).
ChunkResult(ts, thetas, x) == determine_stream_track_single(ts[x], thetas[x])

\* Lines 217-221.
TrackAssignAttrs(s, thetas, acfs, jacs, invjacs, obs) ==
  SetAttrs(s, "_thetasTrack" :> thetas @@ "_ObsTrack" :> obs
              @@ "_allAcfsTrack" :> acfs @@ "_alljacsTrack" :> jacs
              @@ "_allinvjacsTrack" :> invjacs)

\* The whole call, serial path (lines 150-222).
determine_stream_track(s, n) ==
  LET g   == TrackGridAttrs(s, n)
      out == [ii \in 1 .. n |-> ChunkResult(g["_trackts"], ThetasTrack(n), ii)]
  IN  TrackAssignAttrs(g, ThetasTrack(n),
                       [ii \in 1 .. n |-> out[ii][1]], [ii \in 1 .. n |-> out[ii][2]],
                       [ii \in 1 .. n |-> out[ii][3]], [ii \in 1 .. n |-> out[ii][4]])

\* Transform calls of one chunk: one at the track point, six in calcaAJac.
CallsPerChunk == 1 + NCoord

\* ------------------------------------------------ streamdf methods ----
\* meanOmega (lines 294-306).  The three uses of self._sortedSigOEig[2];
\* Python's index 2 is the third entry.
PrefactorSigma2(s) == s["_sortedSigOEig"][2 + 1]
ExponentSigma2(s) == s["_sortedSigOEig"][2 + 1]
ErfSigma2Middle(s) == s["_sortedSigOEig"][1 + 1]
ErfSigma2(s) == s["_sortedSigOEig"][2 + 1]

MeanOmegaDirectionUnsigned(s) == s["_dsigomeanProgDirection"]

\* self._dsigomeanProgDirection*self._sigMeanSign (lines 305-306)
MeanOmegaDirection(s) ==
  [i \in Idx3 |-> s["_dsigomeanProgDirection"][i] * s["_sigMeanSign"]]

\* dO1D = sqrt(2/pi) sqrt(prefactor) exp(-(meandO-dOmin)^2/2/exponent)
\*          / (1 + erf((meandO-dOmin)/sqrt(2 erf))) + meandO,
\* with meandO = coef * sqrt(sqrtOf) and dOmin = dangle/tdisrupt.
\* The vector form is Omega[i] = plus + dO1D * times for each component i.
meanOmega(s, dangle, oned) ==
  LET dOmin  == <<dangle, s["_tdisrupt"]>>
      meandO == [coef |-> s["_sigMeanOffset"], sqrtOf |-> amax(s["_sigomatrixEig"][1])]
      dO1D   == [meandO |-> meandO, dOmin |-> dOmin,
                 prefactor |-> PrefactorSigma2(s),
                 exponent |-> ExponentSigma2(s),
                 erf |-> ErfSigma2(s)]
  IN  IF oned THEN [oned |-> TRUE, dO1D |-> dO1D]
      ELSE [oned |-> FALSE, dO1D |-> dO1D, base |-> s["_progenitor_Omega"],
            dir |-> s["_dsigomeanProgDirection"], sign |-> s["_sigMeanSign"],
            Omega |-> [i \in Idx3 |->
                         [plus  |-> s["_progenitor_Omega"][i],
                          dO1D  |-> dO1D,
                          times |-> MeanOmegaDirection(s)[i]]]]

\* estimateTdisrupt (lines 147-148): deltaAngle/sqrt(sum(_dsigomeanProg**2))
estimateTdisrupt(s, deltaAngle) ==
  [deltaAngle |-> deltaAngle, over |-> <<"sqrt(sum(**2))", s["_dsigomeanProg"]>>]

StreamLBAttrInPlace == "_ObsTrack"

\* calc_stream_lb (lines 255-275) fills a new array, self._ObsTrackLB
StreamLBAttr == "_ObsTrackLB"

\* calc_stream_lb (lines 245-276): the track in observed coordinates, a
\* function of self._ObsTrack and of the frame parameters.
calc_stream_lb(s) ==
  SetAttrs(s, StreamLBAttr :> <<"lbd", s["_ObsTrack"],
                                s["_Vnorm"], s["_Rnorm"], s["_R0"], s["_Zsun"], s["_vsun"]>>)

\* prepData4aA, lines 390-395.  Angles are counted in units of
\* pi/PrepHalfTurn here, so that 4 rad lies strictly between two of them.
BelowMinusFour(d) == d * PiNum < -(Four * PrepHalfTurn * PiDen)

AboveFourAtPi(d) == d > PrepHalfTurn

AboveFour(d) == d * PiNum > Four * PrepHalfTurn * PiDen

\*   da[(da < -4.)]+= 2.*numpy.pi
\*   da[(da > 4.)]-= 2.*numpy.pi
PrepWrap(d) ==
  LET d1 == IF BelowMinusFour(d) THEN d + 2 * PrepHalfTurn ELSE d
  IN  IF AboveFour(d1) THEN d1 - 2 * PrepHalfTurn ELSE d1

\* What the transform returns for the points prepData4aA is given.
Stars ==
  {[J |-> <<1, 2, 3>>, Omega |-> <<1, 0, -1>>,
    angle |-> <<0, PrepHalfTurn + 1, 2 * PrepHalfTurn - 1>>]}

\* The arguments of prepData4aA: the nine offsets themselves, or six
\* phase-space arrays (known by what the transform makes of them).
\* One positional argument of __call__ and prepData4aA: a number (or array),
\* an Orbit (known by its vxvv), a list of Orbits, or something else.
OrbitLists ==
  UNION {[1 .. n -> {p.vxvv : p \in Progenitors}] : n \in 0 .. MaxOrbits}

PositionalArgs ==
  [kind : {"num"}, num : {0, 1}, orbits : {<<>>}]
    \cup [kind : {"orbit"}, num : {0}, orbits : {<<p.vxvv>> : p \in Progenitors}]
    \cup [kind : {"list"}, num : {0}, orbits : OrbitLists]
    \cup [kind : {"other"}, num : {0}, orbits : {<<>>}]

Numbers == {a \in PositionalArgs : a.kind = "num"}

\* The argument tuples the methods are called with.
CallShapes ==
  {<<>>}
    \cup {<<a>> : a \in PositionalArgs}
    \cup [1 .. 3 -> {a \in Numbers : a.num = 1}]
    \cup [1 .. 5 -> Numbers]
    \cup [1 .. 6 -> Numbers]

OrbitValuesZBeforeVT(o) == <<o[1], o[2], o[4], o[3], o[5], o[6]>>

\* (o.R(),o.vR(),o.vT(),o.z(),o.vz(),o.phi()) of an Orbit with vxvv o
OrbitValues(o) == <<o[1], o[2], o[3], o[4], o[5], o[6]>>

\* _parse_call_args (lines 398-417).  An argument tuple that enters none of
\* the four branches reaches the return of line 416 with R unassigned.
parse_call_args(args) ==
  IF Len(args) = 5
    THEN [raised |-> "IOError", kind |-> "none", value |-> <<>>]
  ELSE IF Len(args) = 6
    THEN [raised |-> None, kind |-> "args", value |-> args]
  ELSE IF Len(args) = 0
    THEN [raised |-> "IndexError", kind |-> "none", value |-> <<>>]
  ELSE IF args[1].kind = "orbit"
    THEN [raised |-> None, kind |-> "scalars",
          value |-> OrbitValues(args[1].orbits[1])]
  ELSE IF args[1].kind = "list"
    THEN IF Len(args[1].orbits) = 0
           THEN [raised |-> "IndexError", kind |-> "none", value |-> <<>>]
           ELSE [raised |-> None, kind |-> "arrays",
                 value |-> [k \in 1 .. NCoord |->
                              [j \in 1 .. Len(args[1].orbits) |->
                                 OrbitValues(args[1].orbits[j])[k]]]]
  ELSE [raised |-> "UnboundLocalError", kind |-> "none", value |-> <<>>]

AafTuples ==
  {<<0, 0, 0, 1, 1, 1, 0, 0, 0>>,
   <<1, 2, 3, 4, 5, 6, 2 * PrepHalfTurn - 1, 1 - 2 * PrepHalfTurn, 2 * PrepHalfTurn>>}

PrepArgs == [kind : {"aaf", "xv"}, aaf : AafTuples, acfs : Stars]

\* Lines 379-396: the offsets of the transform's values t from the
\* progenitor's.
PrepOffsets(s, t) ==
  << t.J[1] - s["_progenitor_jr"], t.J[2] - s["_progenitor_lz"],
     t.J[3] - s["_progenitor_jz"],
     t.Omega[1] - s["_progenitor_Omegar"],
     t.Omega[2] - s["_progenitor_Omegaphi"],
     t.Omega[3] - s["_progenitor_Omegaz"],
     PrepWrap(t.angle[1] - s["_progenitor_angler"]),
     PrepWrap(t.angle[2] - s["_progenitor_anglephi"]),
     PrepWrap(t.angle[3] - s["_progenitor_anglez"]) >>

prepData4aAOffsetsOfNine(s, args) ==
  PrepOffsets(s, IF args.kind = "aaf"
                   THEN [J |-> SubSeq(args.aaf, 1, 3), Omega |-> SubSeq(args.aaf, 4, 6),
                         angle |-> SubSeq(args.aaf, 7, 9)]
                   ELSE args.acfs)

\* prepData4aA (lines 376-396)
prepData4aA(s, args) ==
  IF args.kind = "aaf" THEN args.aaf ELSE PrepOffsets(s, args.acfs)

\* _callActionAngleMethod (lines 338-361) on a 9-tuple of action, frequency
\* and angle offsets, which prepData4aA returns as given.  The attributes
\* it reads:
CallReads ==
  {"_sigjr2", "_siglz2", "_sigjz2", "_lnsigjr", "_lnsiglz", "_lnsigjz",
   "_sigangle2", "_lnsigangle"}

callActionAngleMethod(s, log) ==
  IF ~HasAttrs(s, CallReads)
    THEN [op |-> "__call__", args |-> <<log>>, raised |-> "AttributeError", value |-> <<>>]
    ELSE [op |-> "__call__", args |-> <<log>>, raised |-> None,
          value |-> IF log = "True" THEN <<"logdfA+logdfJ">>
                    ELSE <<"exp", "logdfA+logdfJ">>]

LogArgs == {"absent", "True", "False"}

\* ------------------------------------------- the object's life cycle ----
ObjInit ==
  /\ pc = "start"
  /\ inp \in Inputs
  /\ self = <<>>
  /\ err = None
  /\ aAcalls = 0
  /\ integrations = 0
  /\ ret = NoCall
  /\ prev = <<>>
  /\ builds = 1
  /\ JacIdle
  /\ WrapIdle
  /\ TrackIdle
  /\ PotIdle

\* Lines 54-62.
ConstructScalars ==
  /\ pc = "start"
  /\ self' = InitScalars(self, inp)
  /\ IF PotMissing(inp)
       THEN pc' = "raised" /\ err' = "IOError"
       ELSE pc' = "progenitor" /\ err' = err
  /\ UNCHANGED <<inp, aAcalls, integrations, ret, prev, builds>>
  /\ UNCHANGED <<jvars, wvars, tvars, pvars>>

\* Lines 63-79.  With aA=None the call aA.actionsFreqsAngles raises
\* AttributeError ('NoneType' object has no attribute ...).
ConstructProgenitor ==
  /\ pc = "progenitor"
  /\ IF inp.aA = None
       THEN /\ self' = InitCollaborators(self, inp)
            /\ pc' = "raised"
            /\ err' = "AttributeError"
            /\ aAcalls' = aAcalls
       ELSE /\ self' = InitProgenitor(InitCollaborators(self, inp), ProgenitorAcfs(inp))
            /\ pc' = "jacobian"
            /\ err' = err
            /\ aAcalls' = aAcalls + 1
  /\ UNCHANGED <<inp, integrations, ret, prev, builds>>
  /\ UNCHANGED <<jvars, wvars, tvars, pvars>>

\* Lines 80-83.
ConstructdOdJ ==
  /\ pc = "jacobian"
  /\ self' = InitdOdJ(self, inp)
  /\ aAcalls' = aAcalls + NCoord
  /\ pc' = "covariance"
  /\ UNCHANGED <<inp, err, integrations, ret, prev, builds>>
  /\ UNCHANGED <<jvars, wvars, tvars, pvars>>

\* Lines 84-102.
ConstructCovariance ==
  /\ pc = "covariance"
  /\ self' = InitCovariance(self)
  /\ pc' = "direction"
  /\ UNCHANGED <<inp, err, aAcalls, integrations, ret, prev, builds>>
  /\ UNCHANGED <<jvars, wvars, tvars, pvars>>

\* Lines 103-121.
ConstructDirection ==
  /\ pc = "direction"
  /\ self' = InitDirection(self, inp)
  /\ pc' = "cholesky"
  /\ UNCHANGED <<inp, err, aAcalls, integrations, ret, prev, builds>>
  /\ UNCHANGED <<jvars, wvars, tvars, pvars>>

\* Lines 122-130.
ConstructCholesky ==
  /\ pc = "cholesky"
  /\ self' = InitCholesky(self)
  /\ pc' = "track"
  /\ UNCHANGED <<inp, err, aAcalls, integrations, ret, prev, builds>>
  /\ UNCHANGED <<jvars, wvars, tvars, pvars>>

\* Line 131: the whole of _determine_stream_track as one step.
ConstructTrack ==
  /\ pc = "track"
  /\ self' = determine_stream_track(self, inp.nTrackChunks)
  /\ integrations' = integrations + 1
  /\ aAcalls' = aAcalls + inp.nTrackChunks * CallsPerChunk
  /\ pc' = "done"
  /\ UNCHANGED <<inp, err, ret, prev, builds>>
  /\ UNCHANGED <<jvars, wvars, tvars, pvars>>

\* sdf.meanOmega(dangle, oned=...)
MeanOmega ==
  /\ pc = "done"
  /\ \E dangle \in 0 .. MaxDangle : \E oned \in BOOLEAN :
       ret' = [op |-> "meanOmega", args |-> <<dangle, oned>>, raised |-> None,
               value |-> meanOmega(self, dangle, oned)]
  /\ UNCHANGED <<pc, inp, self, err, aAcalls, integrations, prev, builds>>
  /\ UNCHANGED <<jvars, wvars, tvars, pvars>>

\* sdf(jr,lz,jz,Or,Ophi,Oz,ar,aphi,az) with log=True, log=False or no log.
Call ==
  /\ pc = "done"
  /\ \E log \in LogArgs :
       ret' = callActionAngleMethod(self, log)
  /\ UNCHANGED <<pc, inp, self, err, aAcalls, integrations, prev, builds>>
  /\ UNCHANGED <<jvars, wvars, tvars, pvars>>

\* streamdf(...) once more for the same potential and progenitor, with
\* leading flipped to its opposite.
Rebuild ==
  /\ pc = "done"
  /\ builds < MaxBuilds
  /\ prev' = <<[leading |-> self["_leading"], sigMeanSign |-> self["_sigMeanSign"]]>>
  /\ inp' = [inp EXCEPT !.leading = ~@]
  /\ self' = <<>>
  /\ pc' = "start"
  /\ err' = None
  /\ aAcalls' = 0
  /\ integrations' = 0
  /\ ret' = NoCall
  /\ builds' = builds + 1
  /\ UNCHANGED <<jvars, wvars, tvars, pvars>>

Next ==
  \/ ConstructScalars \/ ConstructProgenitor \/ ConstructdOdJ
  \/ ConstructCovariance \/ ConstructDirection \/ ConstructCholesky
  \/ ConstructTrack \/ MeanOmega \/ Call \/ Rebuild

Spec == ObjInit /\ [][Next]_vars

\* ------------------------ _determine_stream_track, chunk by chunk ----
\* numpy.empty: a slot that has not been written yet
Uninit == <<"uninit">>
EmptyArray(n) == [ii \in 1 .. n |-> Uninit]

\* The object as lines 54-130 leave it.
SelfBeforeTrack(in) ==
  InitCholesky(
    InitDirection(
      InitCovariance(
        InitdOdJ(
          InitProgenitor(InitCollaborators(InitScalars(<<>>, in), in),
                         ProgenitorAcfs(in)),
          in)),
      in))

TrackInputs ==
  [ pot     : {"pot"},
    aA      : {"aA"},
    progenitor : Progenitors,
    leading : BOOLEAN,
    Omega   : {<<a, a, a>> : a \in (-OmegaMax) .. OmegaMax},
    dOdJ    : {<<1, 1, 1>>},
    multi   : {NoMulti} \cup {<<k>> : k \in 1 .. MaxMulti},
    nTrackChunks : 1 .. MaxChunks ]

\* The computation of chunk x (_determine_stream_track_single, lines
\* 188-195 and 202-207) raises: the transform or the Jacobian fails there.
ChunkRaisesIgnored(bad, x) == FALSE

ChunkRaises(bad, x) == x \in bad

Min(a, b) == IF a <= b THEN a ELSE b

NumCoresWithoutCpu(n, cpus, multi) == Min(n, multi[1])

\* numcores=numpy.amin([self._nTrackChunks, multiprocessing.cpu_count(), self._multi])
NumCores(n, cpus, multi) == Min(n, Min(cpus, multi[1]))

AssembleSlotOffByOne(mo, ii) == mo[IF ii > 1 THEN ii - 1 ELSE 1]

\* multiOut[ii] in the loop of lines 212-216 (ii is 1-based here)
AssembleSlot(mo, ii) == mo[ii]

TrackInit ==
  /\ inp \in TrackInputs
  /\ self = SelfBeforeTrack(inp)
  /\ pc = "track"
  /\ err = None
  /\ aAcalls = 1 + NCoord
  /\ integrations = 0
  /\ ret = NoCall
  /\ prev = <<>>
  /\ builds = 1
  /\ cpuCount \in 1 .. MaxCpu
  /\ tpc = "start"
  /\ tii = 0
  /\ thetasTrack = <<>>
  /\ allAcfsTrack = <<>> /\ alljacsTrack = <<>> /\ allinvjacsTrack = <<>>
  /\ ObsTrack = <<>>
  /\ multiOut = <<>>
  /\ numcores = 0
  /\ started = {}
  /\ finishOrder = <<>>
  /\ badChunks \in SUBSET (1 .. inp.nTrackChunks)
  /\ chunkCalls = [x \in 1 .. inp.nTrackChunks |-> 0]
  /\ PotIdle
  /\ JacIdle
  /\ WrapIdle

\* Lines 153-185: dt, the grids, the integrated orbit, the empty arrays.
TrackStart ==
  /\ tpc = "start"
  /\ self' = TrackGridAttrs(self, inp.nTrackChunks)
  /\ integrations' = integrations + 1
  /\ allAcfsTrack' = EmptyArray(inp.nTrackChunks)
  /\ alljacsTrack' = EmptyArray(inp.nTrackChunks)
  /\ allinvjacsTrack' = EmptyArray(inp.nTrackChunks)
  /\ ObsTrack' = EmptyArray(inp.nTrackChunks)
  /\ thetasTrack' = ThetasTrack(inp.nTrackChunks)
  /\ IF self["_multi"] = NoMulti
       THEN tpc' = "serial" /\ numcores' = numcores /\ multiOut' = multiOut
       ELSE /\ tpc' = "parallel"
            /\ numcores' = NumCores(inp.nTrackChunks, cpuCount, self["_multi"])
            /\ multiOut' = EmptyArray(inp.nTrackChunks)
  /\ UNCHANGED <<pc, inp, err, aAcalls, ret, prev, builds>>
  /\ UNCHANGED <<cpuCount, tii, started, finishOrder, badChunks, chunkCalls>>
  /\ UNCHANGED <<jvars, wvars, pvars>>

\* Lines 187-199: one pass of the serial loop.  An exception of the chunk's
\* computation leaves the loop, _determine_stream_track and __init__.
TrackSerialChunk ==
  /\ tpc = "serial"
  /\ tii < inp.nTrackChunks
  /\ chunkCalls' = [chunkCalls EXCEPT ![tii + 1] = @ + 1]
  /\ IF ChunkRaises(badChunks, tii + 1)
       THEN /\ tpc' = "raised"
            /\ pc' = "raised"
            /\ err' = "ChunkError"
            /\ UNCHANGED <<allAcfsTrack, alljacsTrack, allinvjacsTrack, ObsTrack,
                           aAcalls, tii>>
       ELSE /\ LET out == ChunkResult(self["_trackts"], thetasTrack, tii + 1)
               IN  /\ allAcfsTrack' = [allAcfsTrack EXCEPT ![tii + 1] = out[1]]
                   /\ alljacsTrack' = [alljacsTrack EXCEPT ![tii + 1] = out[2]]
                   /\ allinvjacsTrack' = [allinvjacsTrack EXCEPT ![tii + 1] = out[3]]
                   /\ ObsTrack' = [ObsTrack EXCEPT ![tii + 1] = out[4]]
            /\ aAcalls' = aAcalls + CallsPerChunk
            /\ tii' = tii + 1
            /\ tpc' = IF tii + 1 = inp.nTrackChunks THEN "assign" ELSE "serial"
            /\ UNCHANGED <<pc, err>>
  /\ UNCHANGED <<inp, self, integrations, ret, prev, builds>>
  /\ UNCHANGED <<cpuCount, thetasTrack, multiOut, numcores, started, finishOrder,
                 badChunks>>
  /\ UNCHANGED <<jvars, wvars, pvars>>

\* multi.parallel_map: a worker takes up chunk x; at most numcores chunks
\* are in progress.
WorkerStart ==
  /\ tpc = "parallel"
  /\ Cardinality(started) - Len(finishOrder) < numcores
  /\ \E x \in (1 .. inp.nTrackChunks) \ started :
       /\ started' = started \cup {x}
       /\ chunkCalls' = [chunkCalls EXCEPT ![x] = @ + 1]
  /\ UNCHANGED <<pc, inp, self, err, aAcalls, integrations, ret, prev, builds>>
  /\ UNCHANGED <<cpuCount, tpc, tii, thetasTrack, allAcfsTrack, alljacsTrack,
                 allinvjacsTrack, ObsTrack, multiOut, numcores, finishOrder, badChunks>>
  /\ UNCHANGED <<jvars, wvars, pvars>>

\* The chunks whose worker has ended, and those among them that raised.
Ended == {finishOrder[k] : k \in 1 .. Len(finishOrder)}
WorkersRaised == {x \in Ended : ChunkRaises(badChunks, x)}

\* multi.parallel_map: the worker of chunk x ends, in any order; its result
\* (the lambda of lines 202-207 applied to x) goes to position x of the list
\* parallel_map returns, or its exception is kept for parallel_map to raise.
WorkerFinish ==
  /\ tpc = "parallel"
  /\ \E x \in started \ Ended :
       /\ multiOut' = IF ChunkRaises(badChunks, x) THEN multiOut
                      ELSE [multiOut EXCEPT
                              ![x] = ChunkResult(self["_trackts"], thetasTrack, x)]
       /\ aAcalls' = IF ChunkRaises(badChunks, x) THEN aAcalls
                     ELSE aAcalls + CallsPerChunk
       /\ finishOrder' = Append(finishOrder, x)
  /\ UNCHANGED <<pc, inp, self, err, integrations, ret, prev, builds>>
  /\ UNCHANGED <<cpuCount, tpc, tii, thetasTrack, allAcfsTrack, alljacsTrack,
                 allinvjacsTrack, ObsTrack, numcores, started, badChunks, chunkCalls>>
  /\ UNCHANGED <<jvars, wvars, pvars>>

\* multi.parallel_map returns once every chunk has finished without raising.
ParallelMapReturn ==
  /\ tpc = "parallel"
  /\ Len(finishOrder) = inp.nTrackChunks
  /\ WorkersRaised = {}
  /\ tpc' = "assemble"
  /\ UNCHANGED <<pc, inp, self, err, aAcalls, integrations, ret, prev, builds>>
  /\ UNCHANGED <<cpuCount, tii, thetasTrack, allAcfsTrack, alljacsTrack,
                 allinvjacsTrack, ObsTrack, multiOut, numcores, started, finishOrder,
                 badChunks, chunkCalls>>
  /\ UNCHANGED <<jvars, wvars, pvars>>

\* multi.parallel_map raises the exception of a worker; the exception leaves
\* _determine_stream_track and __init__.  Workers that have not ended are
\* abandoned, no chunk is handed out again.
ParallelMapRaise ==
  /\ tpc = "parallel"
  /\ WorkersRaised # {}
  /\ tpc' = "raised"
  /\ pc' = "raised"
  /\ err' = "ChunkError"
  /\ UNCHANGED <<inp, self, aAcalls, integrations, ret, prev, builds>>
  /\ UNCHANGED <<cpuCount, tii, thetasTrack, allAcfsTrack, alljacsTrack,
                 allinvjacsTrack, ObsTrack, multiOut, numcores, started, finishOrder,
                 badChunks, chunkCalls>>
  /\ UNCHANGED <<jvars, wvars, pvars>>

\* Lines 212-216: one pass of the loop that copies multiOut into the arrays.
TrackAssemble ==
  /\ tpc = "assemble"
  /\ tii < inp.nTrackChunks
  /\ allAcfsTrack' = [allAcfsTrack EXCEPT ![tii + 1] = AssembleSlot(multiOut, tii + 1)[1]]
  /\ alljacsTrack' = [alljacsTrack EXCEPT ![tii + 1] = AssembleSlot(multiOut, tii + 1)[2]]
  /\ allinvjacsTrack' = [allinvjacsTrack EXCEPT ![tii + 1] = AssembleSlot(multiOut, tii + 1)[3]]
  /\ ObsTrack' = [ObsTrack EXCEPT ![tii + 1] = AssembleSlot(multiOut, tii + 1)[4]]
  /\ tii' = tii + 1
  /\ tpc' = IF tii + 1 = inp.nTrackChunks THEN "assign" ELSE "assemble"
  /\ UNCHANGED <<pc, inp, self, err, aAcalls, integrations, ret, prev, builds>>
  /\ UNCHANGED <<cpuCount, thetasTrack, multiOut, numcores, started, finishOrder,
                 badChunks, chunkCalls>>
  /\ UNCHANGED <<jvars, wvars, pvars>>

\* Lines 217-222: the track becomes the object's.
TrackAssign ==
  /\ tpc = "assign"
  /\ self' = TrackAssignAttrs(self, thetasTrack, allAcfsTrack, alljacsTrack,
                              allinvjacsTrack, ObsTrack)
  /\ tpc' = "done"
  /\ pc' = "done"
  /\ UNCHANGED <<inp, err, aAcalls, integrations, ret, prev, builds>>
  /\ UNCHANGED <<cpuCount, tii, thetasTrack, allAcfsTrack, alljacsTrack,
                 allinvjacsTrack, ObsTrack, multiOut, numcores, started, finishOrder,
                 badChunks, chunkCalls>>
  /\ UNCHANGED <<jvars, wvars, pvars>>

TrackNext ==
  \/ TrackStart \/ TrackSerialChunk \/ WorkerStart \/ WorkerFinish
  \/ ParallelMapReturn \/ ParallelMapRaise \/ TrackAssemble \/ TrackAssign

SpecTrack == TrackInit /\ [][TrackNext]_vars

\* ------------------- the frequency covariance of lines 85-93, in general ----
\* A dO/dJ that need not be diagonal, symmetric or invertible.
CovMatrices ==
  {[i \in Idx3 |-> <<r[i][1], r[i][2], IF i = 3 THEN 1 ELSE 0>>] :
     r \in [Idx3 -> ((-MaxCov) .. MaxCov) \X ((-MaxCov) .. MaxCov)]}

\* sigjr, siglz, sigjz: positive, zero or negative
Dispersions == {<<a, 1 - a, -a>> : a \in (-MaxCov) .. MaxCov}

\* The object when line 85 is reached, as far as lines 85-93 read it.
CovInit ==
  /\ inp \in [dOdJ : CovMatrices, sigj : Dispersions]
  /\ self = SetAttrs(<<>>, "_dOdJp" :> inp.dOdJ)
  /\ pc = "covariance"
  /\ err = None
  /\ aAcalls = 1 + NCoord
  /\ integrations = 0
  /\ ret = NoCall
  /\ prev = <<>>
  /\ builds = 1
  /\ JacIdle
  /\ WrapIdle
  /\ TrackIdle
  /\ PotIdle

\* Lines 85-93.
CovarianceMatrix ==
  /\ pc = "covariance"
  /\ self' = CovarianceMatrixAttrs(self, inp.sigj)
  /\ pc' = "eig"
  /\ UNCHANGED <<inp, err, aAcalls, integrations, ret, prev, builds>>
  /\ UNCHANGED <<jvars, wvars, tvars, pvars>>

CovNext == CovarianceMatrix

SpecCov == CovInit /\ [][CovNext]_vars

\* --------------------------------- the methods of a constructed object ----
\* sdf.estimateTdisrupt(deltaAngle)
EstimateTdisrupt ==
  /\ pc = "done"
  /\ ret' = [op |-> "estimateTdisrupt", args |-> <<DeltaAngleTrack>>, raised |-> None,
             value |-> estimateTdisrupt(self, DeltaAngleTrack)]
  /\ UNCHANGED <<pc, inp, self, err, aAcalls, integrations, prev, builds>>
  /\ UNCHANGED <<jvars, wvars, tvars, pvars>>

\* sdf.prepData4aA(...); with phase-space arrays the transform is called once.
PrepData4aA ==
  /\ pc = "done"
  /\ \E args \in PrepArgs :
       /\ args.kind = "xv" =>
            aAcalls < 1 + NCoord + inp.nTrackChunks * CallsPerChunk + MaxPrepCalls
       /\ ret' = [op |-> "prepData4aA", args |-> <<args.kind, args.aaf>>,
                  raised |-> None,
                  value |-> prepData4aA(self, args)]
       /\ aAcalls' = IF args.kind = "aaf" THEN aAcalls ELSE aAcalls + 1
  /\ UNCHANGED <<pc, inp, self, err, integrations, prev, builds>>
  /\ UNCHANGED <<jvars, wvars, tvars, pvars>>

\* sdf.calc_stream_lb()
CalcStreamLB ==
  /\ pc = "done"
  /\ self' = calc_stream_lb(self)
  /\ ret' = [op |-> "calc_stream_lb", args |-> <<>>, raised |-> None, value |-> <<>>]
  /\ UNCHANGED <<pc, inp, err, aAcalls, integrations, prev, builds>>
  /\ UNCHANGED <<jvars, wvars, tvars, pvars>>

\* The names defined in the body of class streamdf (lines 7-417); the class
\* has no base class.
StreamdfMethods ==
  {"__init__", "estimateTdisrupt", "_determine_stream_track", "calc_stream_lb",
   "meanOmega", "__call__", "_callActionAngleMethod", "prepData4aA",
   "_parse_call_args"}

\* Attribute lookup on the object: its own attributes, then the class.
HasAttr(s, name) == name \in DOMAIN s \/ name \in StreamdfMethods

\* The methods test_bovy14 calls on the object it has constructed.
Bovy14Calls == {"freqEigvalRatio", "misalignment"}

\* sdf.freqEigvalRatio(), sdf.misalignment() as test_bovy14 calls them: a
\* name that lookup does not find raises AttributeError.
TestBovy14Call ==
  /\ pc = "done"
  /\ \E name \in Bovy14Calls :
       ret' = [op |-> name, args |-> <<>>,
               raised |-> IF HasAttr(self, name) THEN None ELSE "AttributeError",
               value |-> <<>>]
  /\ UNCHANGED <<pc, inp, self, err, aAcalls, integrations, prev, builds>>
  /\ UNCHANGED <<jvars, wvars, tvars, pvars>>

\* The constructor's arguments with which the construction completes on the
\* serial path.
UseInputs ==
  [ pot     : {"pot"},
    aA      : {"aA"},
    progenitor : Progenitors,
    leading : BOOLEAN,
    Omega   : {<<a, a, a>> : a \in (-OmegaMax) .. OmegaMax},
    dOdJ    : {<<1, b, c>> : b, c \in 1 .. MaxdOdJ},
    multi   : {NoMulti},
    nTrackChunks : {1, MaxChunks} ]

\* The object as __init__ returns it.
UseInit ==
  /\ inp \in UseInputs
  /\ self = determine_stream_track(SelfBeforeTrack(inp), inp.nTrackChunks)
  /\ pc = "done"
  /\ err = None
  /\ aAcalls = 1 + NCoord + inp.nTrackChunks * CallsPerChunk
  /\ integrations = 1
  /\ ret = NoCall
  /\ prev = <<>>
  /\ builds = 1
  /\ JacIdle
  /\ WrapIdle
  /\ TrackIdle
  /\ PotIdle

UseNext ==
  \/ MeanOmega \/ Call \/ EstimateTdisrupt \/ PrepData4aA \/ CalcStreamLB
  \/ TestBovy14Call

SpecUse == UseInit /\ [][UseNext]_vars

\* ------------------------ the angle offsets of prepData4aA (390-395) ----
PrepAngles == 0 .. (2 * PrepHalfTurn - 1)
PrepSites == {"dar", "daphi", "daz"}

\* wa is the angle of the star, wb that of the progenitor; the shifted pair
\* stands for angles the transform returns outside [0, 2 pi).
PrepInit ==
  /\ wa \in PrepAngles
  /\ wb \in PrepAngles
  /\ wshift \in Shifts \X Shifts
  /\ wsite = "none"
  /\ wout = 0
  /\ woutShift = 0
  /\ JacIdle
  /\ ObjIdle
  /\ TrackIdle
  /\ PotIdle

PrepAngleOffset ==
  /\ wsite = "none"
  /\ \E k \in PrepSites :
       /\ wsite' = k
       /\ wout' = PrepWrap(wa - wb)
       /\ woutShift' = PrepWrap((wa + wshift[1] * 2 * PrepHalfTurn)
                                 - (wb + wshift[2] * 2 * PrepHalfTurn))
  /\ UNCHANGED <<wa, wb, wshift>>
  /\ UNCHANGED <<jvars, ovars, tvars, pvars>>

PrepNext == PrepAngleOffset

SpecPrep == PrepInit /\ [][PrepNext]_vars

\* ------------------------------------ _parse_call_args and its caller ----
\* sdf._parse_call_args(False, *args)
ParseCallArgs ==
  /\ pc = "done"
  /\ \E args \in CallShapes :
       ret' = [op |-> "_parse_call_args", args |-> <<args>>,
               raised |-> parse_call_args(args).raised,
               value |-> <<parse_call_args(args)>>]
  /\ UNCHANGED <<pc, inp, self, err, aAcalls, integrations, prev, builds>>
  /\ UNCHANGED <<jvars, wvars, tvars, pvars>>

\* sdf.prepData4aA(*args) with other than nine arguments (lines 378-396):
\* _parse_call_args, then the transform on what it returned.
PrepData4aAParsed ==
  /\ pc = "done"
  /\ aAcalls < 1 + NCoord + inp.nTrackChunks * CallsPerChunk + MaxPrepCalls
  /\ \E args \in CallShapes : \E t \in Stars :
       LET parsed == parse_call_args(args)
       IN  /\ ret' = [op |-> "prepData4aA", args |-> <<args>>,
                      raised |-> parsed.raised,
                      value |-> IF parsed.raised = None
                                  THEN <<PrepOffsets(self, t)>> ELSE <<>>]
           /\ aAcalls' = IF parsed.raised = None THEN aAcalls + 1 ELSE aAcalls
  /\ UNCHANGED <<pc, inp, self, err, integrations, prev, builds>>
  /\ UNCHANGED <<jvars, wvars, tvars, pvars>>

ParseInputs == {in \in UseInputs : in.Omega[1] = 1 /\ in.dOdJ = <<1, 1, 1>>
                                     /\ in.nTrackChunks = 1}

ParseInit ==
  /\ inp \in ParseInputs
  /\ self = determine_stream_track(SelfBeforeTrack(inp), inp.nTrackChunks)
  /\ pc = "done"
  /\ err = None
  /\ aAcalls = 1 + NCoord + inp.nTrackChunks * CallsPerChunk
  /\ integrations = 1
  /\ ret = NoCall
  /\ prev = <<>>
  /\ builds = 1
  /\ JacIdle
  /\ WrapIdle
  /\ TrackIdle
  /\ PotIdle

ParseNext == ParseCallArgs \/ PrepData4aAParsed

SpecParse == ParseInit /\ [][ParseNext]_vars

\* ------------------------------------------------- verticalPotential.py ----
\* An object is known by its identity (id), its class and, when it has the
\* attributes _ro, _roSet, _vo, _voSet, their value (units, "absent" when it
\* has none); a verticalPotential also by the object it wraps and its R.
\* Class "Potential" stands for Potential and its subclasses, "other" for
\* any class that is not a list, a Potential or a linearPotential.
Kinds ==
  {[cls |-> "Potential", units |-> "unset", RZPot |-> 0, R |-> 0],
   [cls |-> "Potential", units |-> "set", RZPot |-> 0, R |-> 0],
   [cls |-> "linearPotential", units |-> "unset", RZPot |-> 0, R |-> 0],
   [cls |-> "verticalPotential", units |-> "set", RZPot |-> MaxList + 1, R |-> 1],
   [cls |-> "other", units |-> "absent", RZPot |-> 0, R |-> 0],
   [cls |-> "other", units |-> "set", RZPot |-> 0, R |-> 0]}

Object(id, kind) ==
  [id |-> id, cls |-> kind.cls, units |-> kind.units, RZPot |-> kind.RZPot,
   R |-> kind.R]

\* class verticalPotential(linearPotential)
IsLinearPotential(o) == o.cls \in {"linearPotential", "verticalPotential"}
IsPotential(o) == o.cls = "Potential"

\* The objects of a list are different objects: the object at place i has
\* identity i.
PotLists ==
  UNION {{[i \in 1 .. n |-> Object(i, kinds[i])] : kinds \in [1 .. n -> Kinds]} :
           n \in 0 .. MaxList}

PotInputs ==
  [isList : {TRUE}, items : PotLists]
    \cup [isList : {FALSE}, items : {<<Object(1, k)>> : k \in Kinds}]

\* Identities not in use by the objects given.
FreshId(i) == MaxList + 1 + i

\* verticalPotential.__init__ (lines 20-28): reading RZPot._ro raises
\* AttributeError on an object without it.
verticalPotential(pot, R, id) ==
  IF pot.units = "absent"
    THEN [raised |-> "AttributeError", object |-> pot]
    ELSE [raised |-> None,
          object |-> [id |-> id, cls |-> "verticalPotential", units |-> pot.units,
                      RZPot |-> pot.id, R |-> R]]

ListElementAlwaysWrapped(pot, R, id) == verticalPotential(pot, R, id)

\* Lines 92-95: what the loop appends for the element pot.
ListElement(pot, R, id) ==
  IF IsLinearPotential(pot)
    THEN [raised |-> None, object |-> pot]
    ELSE verticalPotential(pot, R, id)

\* The place of the first element of the list whose conversion raises, 0
\* when there is none.
FirstRaising(items, R, base) ==
  IF \E i \in 1 .. Len(items) : ListElement(items[i], R, FreshId(base + i)).raised # None
    THEN CHOOSE i \in 1 .. Len(items) :
           /\ ListElement(items[i], R, FreshId(base + i)).raised # None
           /\ \A j \in 1 .. (i - 1) :
                ListElement(items[j], R, FreshId(base + j)).raised = None
    ELSE 0

\* RZToverticalPotential (lines 89-102); base counts the objects made
\* before this call.
RZToverticalPotential(arg, R, base) ==
  IF arg.isList
    THEN IF FirstRaising(arg.items, R, base) # 0
           THEN [raised |-> ListElement(arg.items[FirstRaising(arg.items, R, base)], R,
                                        FreshId(base)).raised,
                 isList |-> FALSE, items |-> <<>>]
           ELSE [raised |-> None, isList |-> TRUE,
                 items |-> [i \in 1 .. Len(arg.items) |->
                              ListElement(arg.items[i], R, FreshId(base + i)).object]]
  ELSE IF IsPotential(arg.items[1])
    THEN [raised |-> verticalPotential(arg.items[1], R, FreshId(base + 1)).raised,
          isList |-> FALSE,
          items |-> <<verticalPotential(arg.items[1], R, FreshId(base + 1)).object>>]
  ELSE IF IsLinearPotential(arg.items[1])
    THEN [raised |-> None, isList |-> FALSE, items |-> arg.items]
  ELSE [raised |-> "PotentialError", isList |-> FALSE, items |-> <<>>]

PotInit ==
  /\ vpc = "call"
  /\ RZPot \in PotInputs
  /\ vR \in 1 .. MaxR
  /\ vout = NoResult
  /\ vagain = NoResult
  /\ JacIdle
  /\ WrapIdle
  /\ ObjIdle
  /\ TrackIdle

\* out= RZToverticalPotential(RZPot, R)
Convert ==
  /\ vpc = "call"
  /\ vout' = RZToverticalPotential(RZPot, vR, 0)
  /\ vpc' = IF RZToverticalPotential(RZPot, vR, 0).raised = None
              THEN "returned" ELSE "raised"
  /\ UNCHANGED <<RZPot, vR, vagain>>
  /\ UNCHANGED <<jvars, wvars, ovars, tvars>>

\* RZToverticalPotential(out, R2), for any R2
ConvertAgain ==
  /\ vpc = "returned"
  /\ \E R2 \in 1 .. MaxR :
       vagain' = RZToverticalPotential([isList |-> vout.isList, items |-> vout.items],
                                       R2, MaxList)
  /\ vpc' = "again"
  /\ UNCHANGED <<RZPot, vR, vout>>
  /\ UNCHANGED <<jvars, wvars, ovars, tvars>>

PotNext == Convert \/ ConvertAgain

SpecPot == PotInit /\ [][PotNext]_vars

\* ------------------------------------------------------------ claims ----
\* The raw angle difference of component k in column col (0-based).
RawAngleDiff(k, col) ==
  actionsFreqsAngles(aAparam, [xv EXCEPT ![col + 1] = @ + dxv[col + 1]]).angle[k]
    - initacfs.angle[k]

WrappedDiff(d) ==
  IF d > Pi THEN d - FullTurn ELSE IF d < -Pi THEN d + FullTurn ELSE d

\* C1: in calcaAJac every angle entry of the Jacobian (radial, azimuthal and
\* vertical, for every perturbed coordinate) is (d-2pi)/step when the raw
\* difference d exceeds +pi, (d+2pi)/step when d < -pi, and d/step otherwise.
C1_AngleEntriesWrapped ==
  jpc \in {"perturb", "done"} =>
    \A col \in 0 .. (jii - 1) : \A k \in AngleNames :
      jac[angleIndx(jmode) + RowOf(k)][col]
        = <<WrappedDiff(RawAngleDiff(k, col)), dxv[col + 1]>>


\* What has been set on the object so far.
Has(name) == name \in DOMAIN self

\* The projection of the progenitor frequency on the unsigned dominant
\* eigenvector, from the stored attributes.
UnsignedProjection == Dot(self["_progenitor_Omega"], self["_dsigomeanProgDirection"])

\* C2: with pot=None the constructor raises IOError at once: the transform
\* is never called, no orbit is integrated, and no progenitor, covariance or
\* track attribute is set on the object.
C2_PotNoneRaisesAtOnce ==
  (inp.pot = None /\ pc # "start") =>
     /\ pc = "raised"
     /\ err = "IOError"
     /\ aAcalls = 0
     /\ integrations = 0
     /\ (DOMAIN self) \cap (ProgenitorAttrs \cup CovarianceAttrs \cup TrackAttrs) = {}
     /\ ~Has("_pot") /\ ~Has("_aA")

C2_Witness ==
  inp.pot = None /\ pc = "raised" /\ err = "IOError" /\ Has("_sigv")

\* C3: with a potential but aA=None the constructor is stopped by an explicit
\* validation raising the configuration error (the IOError of the potential
\* check), before the transform is used.
C3_aANoneRejectedByValidation ==
  (inp.pot # None /\ inp.aA = None /\ pc = "raised") =>
     (err = "IOError" /\ ~Has("_aA"))

\* C4: after a successful construction __call__ completes using the state
\* the constructor has set, returning logdfJ + logdfA with log=True and its
\* exponential with log absent or False.
C4_CallCompletes ==
  ret.op = "__call__" =>
     /\ ret.raised = None
     /\ ret.value = IF ret.args = <<"True">> THEN <<"logdfA+logdfJ">>
                    ELSE <<"exp", "logdfA+logdfJ">>

\* C5: sigMeanSign is -1 exactly when (leading and the projection is
\* negative) or (trailing and the projection is positive), +1 otherwise, and
\* the stored signed projection is >= 0 for a leading model and <= 0 for a
\* trailing one.
C5_SignConvention ==
  Has("_sigMeanSign") =>
     /\ self["_leading"] = inp.leading
     /\ self["_sigMeanSign"] \in {-1, 1}
     /\ (self["_sigMeanSign"] = -1) <=>
          \/ (self["_leading"] /\ UnsignedProjection < 0)
          \/ (~self["_leading"] /\ UnsignedProjection > 0)
     /\ self["_leading"] => self["_progenitor_Omega_along_dOmega"] >= 0
     /\ ~self["_leading"] => self["_progenitor_Omega_along_dOmega"] <= 0

C5_Witness ==
  /\ Has("_sigMeanSign")
  /\ ~self["_leading"]
  /\ self["_sigMeanSign"] = -1
  /\ self["_progenitor_Omega_along_dOmega"] < 0

\* C6: for the same potential and progenitor, constructing with leading
\* flipped flips sigMeanSign if and only if the projection of the progenitor
\* frequency on the unsigned dominant eigenvector is non-zero.
C6_FlipIffDefiniteSign ==
  (Len(prev) = 1 /\ Has("_sigMeanSign")) =>
     /\ self["_leading"] = ~prev[1].leading
     /\ (self["_sigMeanSign"] = -prev[1].sigMeanSign) <=> (UnsignedProjection # 0)

C6_Witness ==
  /\ Len(prev) = 1
  /\ pc = "done"
  /\ UnsignedProjection > 0
  /\ prev[1].sigMeanSign = 1
  /\ self["_sigMeanSign"] = -1

\* The eigenvalues of the frequency covariance as numpy.linalg.eig gave them.
Eigenvalues == self["_sigomatrixEig"][1]
MiddleEigenvalue == sorted(Eigenvalues)[2]
LargestEigenvalue == amax(Eigenvalues)

\* C7 as stated: meanOmega takes the middle eigenvalue (the second of the
\* three sorted ascending) as sigma^2 in the prefactor, the exponential and
\* the error function; the mean offset uses the largest.
C7_MiddleEigenvalue ==
  ret.op = "meanOmega" =>
     /\ ret.value.dO1D.prefactor = MiddleEigenvalue
     /\ ret.value.dO1D.exponent = MiddleEigenvalue
     /\ ret.value.dO1D.erf = MiddleEigenvalue
     /\ ret.value.dO1D.meandO.sqrtOf = LargestEigenvalue

\* C7 (amended): meanOmega takes the largest eigenvalue (the third of the
\* three sorted ascending) as sigma^2 in the prefactor, the exponential and
\* the error function, the same eigenvalue the mean offset uses.
C7_LargestEigenvalue ==
  ret.op = "meanOmega" =>
     /\ ret.value.dO1D.prefactor = LargestEigenvalue
     /\ ret.value.dO1D.exponent = LargestEigenvalue
     /\ ret.value.dO1D.erf = LargestEigenvalue
     /\ ret.value.dO1D.meandO.sqrtOf = LargestEigenvalue

C7_Witness ==
  /\ ret.op = "meanOmega"
  /\ MiddleEigenvalue < LargestEigenvalue
  /\ ret.value.dO1D.erf = LargestEigenvalue

\* C8: for two angles a, b in [0, 2*pi) the wrapped difference produced by
\* the +-pi correction (in calcaAJac and on diffAngles) lies in (-pi, pi].
C8_WrappedInHalfOpen ==
  wsite # "none" => (wout > -Pi /\ wout <= Pi)

\* C9 as stated: the wrapped difference is the same number when 2*pi is
\* added to or subtracted from either input angle.
C9_ShiftInvariant ==
  wsite # "none" => woutShift = wout

\* C9 (amended): adding or subtracting 2*pi to either input changes the
\* wrapped difference by a whole multiple of 2*pi (possibly none): it is the
\* same angle modulo 2*pi, not necessarily the same number.
C9_ShiftCongruent ==
  wsite # "none" => (woutShift - wout) % FullTurn = 0

C9_Witness ==
  /\ wsite = "diffAngles"
  /\ wshift = <<1, 0>>
  /\ woutShift = wout + FullTurn

\* C10: whichever path built it and in whatever order the workers finished,
\* slot ii of every track array holds the result of chunk ii (time grid
\* entry ii, angle grid entry ii), so the parallel path stores exactly the
\* track of the serial path: the object equals the one the serial path makes.
C10_ParallelEqualsSerial ==
  tpc = "done" =>
     /\ \A ii \in 1 .. inp.nTrackChunks :
          LET single == determine_stream_track_single(
                          linspace(IF IsNeg(TrackDt(self)) THEN Neg(TrackDt(self))
                                   ELSE TrackDt(self), inp.nTrackChunks)[ii],
                          linspace(<<DeltaAngleTrack, 1>>, inp.nTrackChunks)[ii])
          IN  /\ self["_allAcfsTrack"][ii] = single[1]
              /\ self["_alljacsTrack"][ii] = single[2]
              /\ self["_allinvjacsTrack"][ii] = single[3]
              /\ self["_ObsTrack"][ii] = single[4]
     /\ self = determine_stream_track(SelfBeforeTrack(inp), inp.nTrackChunks)

C10_Witness ==
  /\ tpc = "done"
  /\ inp.multi # NoMulti
  /\ Len(finishOrder) >= 2
  /\ finishOrder[1] > finishOrder[2]
  /\ self["_ObsTrack"][1] # self["_ObsTrack"][2]

\* The attributes that lines 217-221 assign.
AssignedTrackAttrs ==
  {"_thetasTrack", "_ObsTrack", "_allAcfsTrack", "_alljacsTrack", "_allinvjacsTrack"}

\* The computation of some chunk has been made and has raised.
ChunkHasRaised ==
  \E x \in badChunks : chunkCalls[x] > 0 /\ (inp.multi = NoMulti \/ x \in Ended)

\* C11: if the computation of a track chunk raises, on the serial or on the
\* parallel path, the exception leaves the constructor, no chunk is computed
\* a second time, and none of _thetasTrack, _ObsTrack, _allAcfsTrack,
\* _alljacsTrack, _allinvjacsTrack is ever assigned.
C11_ChunkFailureAborts ==
  /\ \A x \in DOMAIN chunkCalls : chunkCalls[x] <= 1
  /\ ChunkHasRaised =>
       /\ tpc \in {"parallel", "raised"}
       /\ AssignedTrackAttrs \cap (DOMAIN self) = {}
  /\ tpc = "raised" => (pc = "raised" /\ err = "ChunkError" /\ ChunkHasRaised)

C11_Witness ==
  /\ tpc = "raised"
  /\ inp.multi # NoMulti
  /\ \E x \in 1 .. inp.nTrackChunks : multiOut[x] # Uninit
  /\ \E x \in 1 .. inp.nTrackChunks : chunkCalls[x] = 0

\* C12: when dt < 0 the orbit of the track starts from the progenitor's
\* point at time 0 with vR, vT, vz negated and R, z, phi as they are, is
\* integrated over a grid of non-negative times, and then the velocity
\* columns of every row are negated and the position columns are not; when
\* dt >= 0 nothing is negated.  In both cases the first row (time 0) is the
\* progenitor's point at time 0.
C12_VelocitiesFlippedAndBack ==
  Has("_progenitorTrack") =>
    LET p0    == inp.progenitor.vxvv
        track == self["_progenitorTrack"]
        ts    == self["_trackts"]
        raw   == integrate(track.vxvv, ts)
    IN  /\ IsNeg(TrackDt(self)) =>
             /\ track.vxvv = <<p0[1], -p0[2], -p0[3], p0[4], -p0[5], p0[6]>>
             /\ \A i \in DOMAIN ts : ts[i][1] >= 0 /\ ts[i][2] > 0
             /\ \A i \in DOMAIN raw :
                  /\ \A k \in {2, 3, 5} :
                       track.orbit[i][k] = <<-raw[i][k][1], raw[i][k][2]>>
                  /\ \A k \in {1, 4, 6} : track.orbit[i][k] = raw[i][k]
        /\ ~IsNeg(TrackDt(self)) => (track.vxvv = p0 /\ track.orbit = raw)
        /\ \A k \in Coords : track.orbit[1][k] = <<p0[k], 1>>

C12_Witness ==
  /\ Has("_progenitorTrack")
  /\ IsNeg(TrackDt(self))
  /\ inp.nTrackChunks >= 2
  /\ self["_progenitorTrack"].orbit[2][5][1] # 0
  /\ self["_progenitorTrack"].orbit[2][1] # self["_progenitorTrack"].orbit[1][1]

\* Rationals <<num, den>> with den > 0.
QEq(a, b) == a[2] # 0 /\ b[2] # 0 /\ a[1] * b[2] = b[1] * a[2]
QLess(a, b) == a[2] # 0 /\ b[2] # 0 /\ a[1] * b[2] < b[1] * a[2]
QDiff(a, b) == <<a[1] * b[2] - b[1] * a[2], a[2] * b[2]>>

\* g is a uniform, increasing grid of n finite entries from 0 to stop.
GridFromZeroTo(g, stop, n) ==
  /\ Len(g) = n
  /\ QEq(g[1], Zero)
  /\ QEq(g[n], stop)
  /\ \A i \in 1 .. (n - 1) : QLess(g[i], g[i + 1]) \/ QEq(g[i], g[i + 1])
  /\ \A i \in 1 .. (n - 2) : QEq(QDiff(g[i + 1], g[i]), QDiff(g[i + 2], g[i + 1]))
  /\ \A i \in 1 .. n : ~QLess(g[i], Zero) /\ ~QLess(g[n], g[i])

AbsDt == IF IsNeg(TrackDt(self)) THEN Neg(TrackDt(self)) ELSE TrackDt(self)

C14_NumcoresIsMin ==
  (inp.multi # NoMulti /\ tpc # "start") =>
     /\ numcores <= inp.nTrackChunks
     /\ numcores <= cpuCount
     /\ numcores <= inp.multi[1]
     /\ numcores \in {inp.nTrackChunks, cpuCount, inp.multi[1]}
     /\ Cardinality(started) - Len(finishOrder) <= numcores

C14_Witness ==
  /\ tpc = "parallel"
  /\ numcores = cpuCount
  /\ cpuCount < inp.nTrackChunks
  /\ cpuCount < inp.multi[1]
  /\ Cardinality(started) - Len(finishOrder) = numcores

\* What C15 is about: the stored track, the frequency covariance with its
\* eigen-decomposition, and the progenitor's action-angle snapshot.
ModelState(s) == [n \in TrackAttrs \cup CovarianceAttrs \cup ProgenitorAttrs |-> s[n]]

LessThanMinusFourRad(d) == d * PiNum < -(4 * PrepHalfTurn * PiDen)
MoreThanFourRad(d) == d * PiNum > 4 * PrepHalfTurn * PiDen
OnceCorrected(d) ==
  IF LessThanMinusFourRad(d) THEN d + 2 * PrepHalfTurn
  ELSE IF MoreThanFourRad(d) THEN d - 2 * PrepHalfTurn
  ELSE d

\* C16: in prepData4aA each angle offset (angle minus progenitor angle) is
\* increased by 2 pi if below -4, decreased by 2 pi if above 4 and left as it
\* is otherwise, at most once; for angles in [0, 2 pi) the offset returned
\* lies in [-4, 4].
C16_PrepOffsetsWithinFour ==
  wsite \in PrepSites =>
     /\ wout = OnceCorrected(wa - wb)
     /\ woutShift = OnceCorrected((wa + wshift[1] * 2 * PrepHalfTurn)
                                   - (wb + wshift[2] * 2 * PrepHalfTurn))
     /\ ~LessThanMinusFourRad(wout) /\ ~MoreThanFourRad(wout)

C16_Witness ==
  /\ wsite = "daz"
  /\ wa - wb > PrepHalfTurn
  /\ wout = wa - wb
  /\ wshift = <<1, 0>>
  /\ woutShift = wa - wb

\* C20: for every angle offset, meanOmega(dangle) is the progenitor frequency
\* plus meanOmega(dangle, oned=True) times sigMeanSign times the dominant
\* eigenvector, component by component.
C20_VectorFromScalar ==
  (ret.op = "meanOmega" /\ ~ret.args[2]) =>
     \A i \in Idx3 :
        ret.value.Omega[i]
          = [plus  |-> self["_progenitor_Omega"][i],
             dO1D  |-> meanOmega(self, ret.args[1], TRUE).dO1D,
             times |-> self["_sigMeanSign"] * self["_dsigomeanProgDirection"][i]]

C20_Witness ==
  /\ ret.op = "meanOmega"
  /\ ~ret.args[2]
  /\ ret.args[1] > 0
  /\ self["_sigMeanSign"] = -1
  /\ \E i \in Idx3 : ret.value.Omega[i].times = -1

\* Determinants of the principal submatrices of a 3x3 matrix.
Minor2(m, i, j) == m[i][i] * m[j][j] - m[i][j] * m[j][i]
Det3(m) ==
  m[1][1] * (m[2][2] * m[3][3] - m[2][3] * m[3][2])
    - m[1][2] * (m[2][1] * m[3][3] - m[2][3] * m[3][1])
    + m[1][3] * (m[2][1] * m[3][2] - m[2][2] * m[3][1])
IsSymmetric(m) == \A i, j \in Idx3 : m[i][j] = m[j][i]
\* A symmetric matrix is positive semi-definite iff all its principal minors
\* are non-negative.
IsPositiveSemiDefinite(m) ==
  /\ \A i \in Idx3 : m[i][i] >= 0
  /\ \A i, j \in Idx3 : i < j => Minor2(m, i, j) >= 0
  /\ Det3(m) >= 0

\* C19: the frequency covariance dOdJ * diag(sigjr^2, siglz^2, sigjz^2) *
\* dOdJ^T of the constructor is symmetric and positive semi-definite, for
\* every 3x3 matrix dOdJ and every triple of real dispersions.
C19_CovarianceSymmetricPSD ==
  Has("_sigomatrix") =>
     /\ IsSymmetric(self["_sigomatrix"])
     /\ IsPositiveSemiDefinite(self["_sigomatrix"])
     /\ \A x \in [Idx3 -> (-1) .. 1] :
          Dot(x, [i \in Idx3 |-> Dot(self["_sigomatrix"][i], x)]) >= 0

C19_Witness ==
  /\ pc = "eig"
  /\ inp.dOdJ # Transpose(inp.dOdJ)
  /\ inp.sigj[1] < 0
  /\ self["_sigomatrix"][1][2] # 0
  /\ Det3(self["_sigomatrix"]) > 0

\* calcaAJac has returned a matrix.
Returned == jpc = "done" /\ jret.raised = None

\* C17 as stated: calcaAJac returns a matrix of 6 columns and N rows, N in
\* {3, 6, 9}, N selected by the output mode that was asked for.
C17_SixColumnsThreeSixNineRows ==
  jpc \in {"done", "raised"} =>
     /\ Returned
     /\ jret.cols = 6
     /\ jret.rows \in {3, 6, 9}

\* C17 (amended): without dOdJ calcaAJac returns jac itself, 9x6 with
\* actionsFreqsAngles (actions, frequencies, angles) and 6x6 otherwise (three
\* action rows, or three frequency rows with freqs, then three angle rows);
\* with dOdJ it returns the 3x3 matrix dot(jac2,inv(jac))[0:3,0:3], or raises
\* LinAlgError when jac is 9x6 (actionsFreqsAngles) or singular.
C17_ShapeByMode ==
  /\ jpc = "done" =>
       /\ Returned
       /\ IF jmode.dOdJ
            THEN ~jmode.actionsFreqsAngles /\ jret.rows = 3 /\ jret.cols = 3
            ELSE /\ jret.cols = 6
                 /\ jret.rows = IF jmode.actionsFreqsAngles THEN 9 ELSE 6
                 /\ jret.value = <<"jac", jac>>
                 /\ \A col \in 0 .. (NCoord - 1) : \A k \in AngleNames :
                      jac[jret.rows - 3 + RowOf(k)][col][1]
                        \in {RawAngleDiff(k, col), RawAngleDiff(k, col) - FullTurn,
                             RawAngleDiff(k, col) + FullTurn}
  /\ jpc = "raised" => (jmode.dOdJ /\ jret.raised = "LinAlgError")

C17_Witness ==
  /\ Returned
  /\ ~jmode.actionsFreqsAngles /\ ~jmode.freqs /\ ~jmode.dOdJ
  /\ jret.rows = 6 /\ jret.cols = 6
  /\ jac[0][0] # Zero /\ jac[5][5] # Zero

\* C18: if the transform raises or returns values that are not finite, at
\* the base point or at a perturbed point, calcaAJac raises a domain error
\* and returns no Jacobian; it calls the transform at most once per point.
C18_FaultSurfacesAsError ==
  /\ aAcallsJ <= 1 + NCoord
  /\ (jfault.kind # "none" /\ jpc \in {"done", "raised"}) =>
        (jpc = "raised" /\ jret.raised = "aAError")

\* The transform at the point with coordinate col (0-based) perturbed.
PerturbedAcfs(col) ==
  actionsFreqsAngles(aAparam, [xv EXCEPT ![col + 1] = @ + dxv[col + 1]])

\* dOdJ alone was asked for.
OnlydOdJ == jmode.dOdJ /\ ~jmode.freqs /\ ~jmode.actionsFreqsAngles

\* C21: with dOdJ alone, calcaAJac calls the transform once per perturbed
\* coordinate (six calls after the base point) and, when it returns, returns
\* the 3x3 block of dot(jac2, inv(jac)), where jac has the action differences
\* in rows 0-2, jac2 the frequency differences in rows 0-2, and both have
\* the same angle rows 3-5.
C21_dOdJFromOnePass ==
  (OnlydOdJ /\ jpc \in {"done", "raised"}) =>
     /\ aAcallsJ = 1 + NCoord
     /\ jpc = "done" =>
          /\ jret.rows = 3 /\ jret.cols = 3
          /\ jret.value = <<"dot(jac2,inv(jac))[0:3,0:3]", jac2, jac>>
          /\ Shape(jac) = <<6, 6>> /\ Shape(jac2) = <<6, 6>>
          /\ \A col \in 0 .. (NCoord - 1) :
               /\ \A k \in AngleNames :
                    /\ jac[RowOf(k)][col]
                         = <<PerturbedAcfs(col).J[k] - initacfs.J[k], dxv[col + 1]>>
                    /\ jac2[RowOf(k)][col]
                         = <<PerturbedAcfs(col).Omega[k] - initacfs.Omega[k],
                             dxv[col + 1]>>
                    /\ jac[3 + RowOf(k)][col][1]
                         \in {RawAngleDiff(k, col), RawAngleDiff(k, col) - FullTurn,
                              RawAngleDiff(k, col) + FullTurn}
               /\ \A row \in 3 .. 5 : jac2[row][col] = jac[row][col]
     /\ jpc = "raised" => jret.raised = "LinAlgError"

C21_Witness ==
  /\ OnlydOdJ /\ Returned
  /\ jret.rows = 3
  /\ jac2[0][0] # Zero /\ jac2[5][5] # Zero /\ jac2[0][0] # jac[0][0]

\* C22: on the object of the Bovy (2014) setup (leading, constructed without
\* error) freqEigvalRatio() and misalignment() report a value (about 30 and
\* about -0.5 degree); here, only that each call reports at all.
C22_Bovy14Reported ==
  (pc = "done" /\ inp.leading /\ ret.op \in Bovy14Calls) => ret.raised = None

PerturbedCoords == {i \in Coords : xv[i] # 0}

\* C24: while calcaAJac runs at most one coordinate of the caller's xv is
\* perturbed, and on every exit, a returned Jacobian or an error propagated
\* from the transform, xv has the caller's values again.
C24_XvRestoredOnEveryExit ==
  jpc # "idle" =>
     /\ Cardinality(PerturbedCoords) <= 1
     /\ jpc \in {"done", "raised"} => PerturbedCoords = {}

\* C25: a call of calcaAJac with the same xv, the same dxv array and the
\* same flags as an earlier call uses the step sizes of that call and
\* returns what that call returned.
C25_Repeatable ==
  (jpc = "done" /\ Len(jhist) >= 1) =>
     /\ jhist[1].steps = dxv
     /\ jhist[1].value = jret

\* What a call r of _parse_call_args was given and what it made of it.
ParseArgs(r) == r.args[1]
Parsed(r) == r.value[1]

ParseOutcomeRight(r) ==
  /\ Len(ParseArgs(r)) = 5 => r.raised = "IOError"
  /\ Len(ParseArgs(r)) = 6 =>
       (r.raised = None /\ Parsed(r).kind = "args" /\ Parsed(r).value = ParseArgs(r))
  /\ (Len(ParseArgs(r)) = 1 /\ ParseArgs(r)[1].kind = "orbit") =>
       /\ r.raised = None /\ Parsed(r).kind = "scalars"
       /\ \A k \in 1 .. NCoord : Parsed(r).value[k] = ParseArgs(r)[1].orbits[1][k]
  /\ (Len(ParseArgs(r)) = 1 /\ ParseArgs(r)[1].kind = "list"
        /\ Len(ParseArgs(r)[1].orbits) >= 1) =>
       /\ r.raised = None /\ Parsed(r).kind = "arrays"
       /\ \A k \in 1 .. NCoord :
            /\ Len(Parsed(r).value[k]) = Len(ParseArgs(r)[1].orbits)
            /\ \A j \in 1 .. Len(ParseArgs(r)[1].orbits) :
                 Parsed(r).value[k][j] = ParseArgs(r)[1].orbits[j][k]
  /\ r.raised = None => Len(Parsed(r).value) = 6

\* C26: _parse_call_args raises IOError for five positional values, returns
\* six positional values as they are, returns (R,vR,vT,z,vz,phi) of a single
\* Orbit and, for a list of Orbits, six arrays with one entry per orbit in
\* the order of the list; whatever it returns has six members; and
\* prepData4aA given five positional values raises that IOError without a
\* call of the transform.
C26_ParseShapes ==
  [][ /\ ret'.op = "_parse_call_args" => ParseOutcomeRight(ret')
      /\ (ret'.op = "prepData4aA" /\ Len(ret'.args[1]) = 5) =>
           (ret'.raised = "IOError" /\ aAcalls' = aAcalls) ]_vars

\* A list of two different orbits was parsed.
C26_Witness ==
  /\ ret.op = "_parse_call_args" /\ ret.raised = None
  /\ Parsed(ret).kind = "arrays"
  /\ Len(Parsed(ret).value[1]) = 2
  /\ Parsed(ret).value[3] # Parsed(ret).value[4]
  /\ Parsed(ret).value[1][1] # Parsed(ret).value[1][2]

\* The call has ended, by a return or by an exception.
Converted == vpc \in {"returned", "again", "raised"}

\* Element i of the result is the element the claim describes.
ElementAsClaimed(i) ==
  IF IsLinearPotential(RZPot.items[i])
    THEN vout.items[i] = RZPot.items[i]
    ELSE /\ vout.items[i].cls = "verticalPotential"
         /\ vout.items[i].RZPot = RZPot.items[i].id
         /\ vout.items[i].R = vR
         /\ vout.items[i].id \notin {RZPot.items[j].id : j \in 1 .. Len(RZPot.items)}

\* An element the constructor of verticalPotential cannot wrap.
Unwrappable(o) == ~IsLinearPotential(o) /\ o.units = "absent"

\* C27 as stated: a list gives a list of the same length and order, with
\* every linearPotential the identical object and every other element wrapped
\* at R; a second application returns the same potentials; an input that is
\* neither a list, a Potential nor a linearPotential raises PotentialError.
C27_ListWrappedIdempotent ==
  /\ (Converted /\ RZPot.isList) =>
        /\ vout.raised = None /\ vout.isList
        /\ Len(vout.items) = Len(RZPot.items)
        /\ \A i \in 1 .. Len(RZPot.items) : ElementAsClaimed(i)
  /\ vpc = "again" => (vagain.raised = None /\ vagain.items = vout.items)
  /\ (Converted /\ ~RZPot.isList /\ ~IsPotential(RZPot.items[1])
        /\ ~IsLinearPotential(RZPot.items[1])) => vout.raised = "PotentialError"

\* C27 (amended): the same, for a list in which every element that is not a
\* linearPotential has the attributes _ro, _roSet, _vo, _voSet; a list with an
\* element that has not raises AttributeError and returns nothing.
C27_ListWrappedUnlessUnwrappable ==
  /\ (Converted /\ RZPot.isList) =>
        IF \E i \in 1 .. Len(RZPot.items) : Unwrappable(RZPot.items[i])
          THEN vout.raised = "AttributeError" /\ vpc = "raised"
          ELSE /\ vout.raised = None /\ vout.isList
               /\ Len(vout.items) = Len(RZPot.items)
               /\ \A i \in 1 .. Len(RZPot.items) : ElementAsClaimed(i)
  /\ (Converted /\ ~RZPot.isList /\ IsPotential(RZPot.items[1])) =>
        /\ vout.raised = None /\ ~vout.isList
        /\ vout.items[1].cls = "verticalPotential"
        /\ vout.items[1].RZPot = RZPot.items[1].id /\ vout.items[1].R = vR
  /\ (Converted /\ ~RZPot.isList /\ IsLinearPotential(RZPot.items[1])) =>
        (vout.raised = None /\ vout.items = RZPot.items)
  /\ vpc = "again" =>
        (vagain.raised = None /\ vagain.isList = vout.isList
           /\ vagain.items = vout.items)
  /\ (Converted /\ ~RZPot.isList /\ ~IsPotential(RZPot.items[1])
        /\ ~IsLinearPotential(RZPot.items[1])) => vout.raised = "PotentialError"

\* A list of a linearPotential and a Potential was converted, and converted
\* again.
C27_Witness ==
  /\ vpc = "again" /\ RZPot.isList /\ Len(RZPot.items) = 2
  /\ RZPot.items[1].cls = "linearPotential" /\ RZPot.items[2].cls = "Potential"
  /\ vout.items[1] = RZPot.items[1]
  /\ vout.items[2].cls = "verticalPotential"
  /\ vagain.items = vout.items

====
